---- MODULE Spec2Model ----
(***************************************************************************)
(* Model of the spantools content engine (encoding.SpanEngine): the codec  *)
(* registry, mimetype inference, panic-safe codec invocation, sniffing and *)
(* the closing of decode sources.                                          *)
(***************************************************************************)
EXTENDS Integers, Sequences, FiniteSets, TLC

(* ------------------------------------------------------------------ *)
(* Bounds                                                              *)
(* ------------------------------------------------------------------ *)
\* number of registration calls (SetEncoder / SetDecoder / SetPassedEngine)
\* made after NewContentEngine
MaxRegs == 2

(* ------------------------------------------------------------------ *)
(* Mimetypes (mimetype.go)                                             *)
(* ------------------------------------------------------------------ *)
JSON == "application/json"
BSON == "application/bson"
TEXT == "text/plain"
UNKNOWN == ""
CSV == "text/csv"

MimeType == {UNKNOWN, JSON, BSON, TEXT, CSV}

(* ------------------------------------------------------------------ *)
(* Values handed to the engine                                         *)
(* ------------------------------------------------------------------ *)
\* dynamic type of the content / contentReceiver argument
ContentKinds == {"string", "strptr", "struct"}

\* codecs are named: the built-ins "json", "bson", "text", and the codecs a
\* host application brings: "custom" (an encoder for strings that needs the
\* host's engine type), "panicky" (panics with an error value) and "nilpanic"
\* (panics with nil).  NoCodec: nothing registered.
NoCodec == "none"

\* engine handed to the codecs
SelfEngine == "SpanEngine"
CustomEngine == "CustomEngine"

(* ------------------------------------------------------------------ *)
(* Errors: the rendered message, outermost part first.  nil is <<>>.   *)
(* ------------------------------------------------------------------ *)
NilErr == << >>
\* panic(nil): recover() returns nil
NilPanic == << >>

\* xerrors.New(msg)
ErrNew(msg) == <<msg>>
\* xerrors.Errorf(prefix + ": %w", err)
Errorf(prefix, err) == <<prefix>> \o err

\* result of running a codec body: it returns (ret, err nil or not) or panics
Returned(err) == [kind |-> "return", err |-> err, val |-> NilPanic]
Panicked(val) == [kind |-> "panic", err |-> NilErr, val |-> val]

TypeAssertErr == <<"interface conversion">>

(* ------------------------------------------------------------------ *)
(* Codec bodies                                                        *)
(* ------------------------------------------------------------------ *)
\* textEncoder.Decode
TextDecode(receiver, read) ==
    IF receiver # "strptr"
    THEN Returned(ErrNew("content receiver must be a string pointer to receive a string."))
    ELSE IF read = "readfail" THEN Returned(ErrNew("read error"))
    ELSE Returned(NilErr)

\* jsonEncoder.Decode / bsonEncoder.Decode: assert the engine type, then hand
\* the source to the format's driver
ObjectDecode(fmt, passEngine, receiver, read) ==
    IF passEngine # SelfEngine THEN Panicked(TypeAssertErr)
    ELSE IF read = fmt /\ receiver = "struct" THEN Returned(NilErr)
    ELSE Returned(ErrNew(fmt \o " decode error"))

\* Decoder.Decode of codec c
DecoderBody(c, passEngine, receiver, read) ==
    CASE c = "text" -> TextDecode(receiver, read)
      [] c = "json" -> ObjectDecode("json", passEngine, receiver, read)
      [] c = "bson" -> ObjectDecode("bson", passEngine, receiver, read)
      [] c = "panicky" -> Panicked(ErrNew("decode panicked"))
      [] c = "nilpanic" -> Panicked(NilPanic)

\* bytes an encoder writes: which encoder rendered which content
Bytes(c, content) == <<c, content>>
NoBytes == << >>

\* textEncoder.Encode: writes fmt.Sprint(content)
TextEncode(content) == [res |-> Returned(NilErr), out |-> Bytes("text", content)]

\* jsonEncoder.Encode / bsonEncoder.Encode: assert the engine type, then
\* marshal the content to the sink
ObjectEncode(fmt, passEngine, content) ==
    IF passEngine # SelfEngine
    THEN [res |-> Panicked(TypeAssertErr), out |-> NoBytes]
    ELSE [res |-> Returned(NilErr), out |-> Bytes(fmt, content)]

\* CustomTextEncoder.Encode: asserts the host's engine type and a string
CustomEncode(passEngine, content) ==
    IF passEngine # CustomEngine \/ content # "string"
    THEN [res |-> Panicked(TypeAssertErr), out |-> NoBytes]
    ELSE [res |-> Returned(NilErr), out |-> Bytes("custom", content)]

\* Encoder.Encode of codec c: the result and the bytes written to the sink
EncoderBody(c, passEngine, content) ==
    CASE c = "text" -> TextEncode(content)
      [] c = "json" -> ObjectEncode("json", passEngine, content)
      [] c = "bson" -> ObjectEncode("bson", passEngine, content)
      [] c = "custom" -> CustomEncode(passEngine, content)
      [] c = "panicky" -> [res |-> Panicked(ErrNew("encode panicked")), out |-> NoBytes]
      [] c = "nilpanic" -> [res |-> Panicked(NilPanic), out |-> NoBytes]

(* ------------------------------------------------------------------ *)
(* BSON codec.  Bytes are numbers; a document is a length byte, the    *)
(* bytes of its field values and a zero terminator.                    *)
(* ------------------------------------------------------------------ *)
\* most elements of a slice given to the codec
MaxDocs == 2

\* []byte(BsonListSepString): the UTF-8 bytes of U+241E
BsonListSepBytes == <<226, 144, 158>>

\* largest token the bufio.Scanner of decodeMany buffers (64 KiB in bufio),
\* scaled to the documents of FieldValues
MaxScanTokenSize == 8

\* field values a document carries: short texts, a text holding U+241E, a
\* text ending in the first two bytes of U+241E, and a long text
FieldValues == {<<97>>, <<98>>, <<97, 226, 144, 158>>, <<226, 144>>,
                <<97, 97, 97, 97, 97, 97>>}

\* bson.MarshalWithRegistry of a document with field bytes v
Marshal(v) == <<Len(v) + 2>> \o v \o <<0>>

\* the sink: the writes that succeeded, the number of Write calls, and the
\* call that fails (0: none, as for a bytes.Buffer)
NewSink(failAt) == [writes |-> << >>, calls |-> 0, failAt |-> failAt]

\* writer.Write(bytes)
Write(sink, bytes) ==
    IF sink.calls + 1 = sink.failAt
    THEN [err |-> ErrNew("write error"), sink |-> [sink EXCEPT !.calls = @ + 1]]
    ELSE [err |-> NilErr,
          sink |-> [sink EXCEPT !.calls = @ + 1, !.writes = Append(@, bytes)]]

\* the bytes a sink holds
RECURSIVE Flatten(_)
Flatten(writes) ==
    IF writes = << >> THEN << >> ELSE Head(writes) \o Flatten(Tail(writes))

\* reflect.Indirect(reflect.ValueOf(content)) seen as a sequence: its elements
SeqElems(content) ==
    IF content.type = "bson.Raw"
    THEN [i \in 1..Len(content.items[1]) |->
            [type |-> "uint8", ptr |-> FALSE, items |-> <<<<content.items[1][i]>>>>]]
    ELSE [i \in 1..Len(content.items) |->
            [type |-> CASE content.type = "[]Name" -> "Name"
                        [] content.type = "[]*Name" -> "Name"
                        [] OTHER -> "string",
             ptr |-> content.type = "[]*Name",
             items |-> <<content.items[i]>>]]

\* content.(*bson.Raw)
IsRawPointer(content) == content.type = "bson.Raw" /\ content.ptr

\* bsonEncoder.encodeSingle
encodeSingle(sink, content) ==
    IF ~IsRawPointer(content)
    THEN CASE content.type = "Name" -> Write(sink, Marshal(content.items[1]))
           [] content.type = "string" ->
                [err |-> ErrNew("WriteString can only write while positioned on a Element or Value but is positioned on a TopLevel"),
                 sink |-> sink]
           [] OTHER ->
                [err |-> ErrNew("WriteInt32 can only write while positioned on a Element or Value but is positioned on a TopLevel"),
                 sink |-> sink]
    ELSE Write(sink, content.items[1])

\* variant: the delimiter follows every element
SeparatorDue_AfterEach(arrayIndex, finalIndex) == TRUE

\* encodeMany: whether the delimiter is written after element arrayIndex
SeparatorDue(arrayIndex, finalIndex) == arrayIndex # finalIndex

\* bsonEncoder.encodeMany: the loop from element arrayIndex on
RECURSIVE encodeMany(_, _, _)
encodeMany(sink, elems, arrayIndex) ==
    LET finalIndex == Len(elems)
    IN IF arrayIndex > finalIndex THEN [err |-> NilErr, sink |-> sink]
       ELSE LET one == encodeSingle(sink, elems[arrayIndex])
            IN IF one.err # NilErr THEN one
               ELSE IF SeparatorDue(arrayIndex, finalIndex)
                    THEN LET sep == Write(one.sink, BsonListSepBytes)
                         IN IF sep.err # NilErr
                            THEN [err |-> Errorf("error writing document separator",
                                                 sep.err),
                                  sink |-> sep.sink]
                            ELSE encodeMany(sep.sink, elems, arrayIndex + 1)
                    ELSE encodeMany(one.sink, elems, arrayIndex + 1)

\* bsonEncoder.isSequence of the indirected value
isSequence(value) == value.type \in {"[]Name", "[]*Name", "[]string", "bson.Raw"}

\* bsonEncoder.Encode: the outcome and the sink
bsonEncode(passEngine, sink, content) ==
    IF passEngine # SelfEngine
    THEN [res |-> Panicked(TypeAssertErr), sink |-> sink]
    ELSE LET r == IF isSequence(content) /\ ~IsRawPointer(content)
                  THEN encodeMany(sink, SeqElems(content), 1)
                  ELSE encodeSingle(sink, content)
         IN [res |-> Returned(r.err), sink |-> r.sink]

\* bytes.Index(data, sep), counted from 0; -1 when sep does not occur
bytesIndex(data, sep) ==
    LET hits == {i \in 0..(Len(data) - Len(sep)) :
                    SubSeq(data, i + 1, i + Len(sep)) = sep}
    IN IF hits = {} THEN -1 ELSE CHOOSE i \in hits : \A j \in hits : i <= j

\* splitBsonFunc: some tells a nil token from an empty one
splitBsonFunc(data, atEOF) ==
    LET i == bytesIndex(data, BsonListSepBytes)
    IN IF atEOF /\ Len(data) = 0
       THEN [advance |-> 0, some |-> FALSE, token |-> << >>]
       ELSE IF i >= 0
       THEN [advance |-> i + 3, some |-> TRUE, token |-> SubSeq(data, 1, i)]
       ELSE IF atEOF
       THEN [advance |-> Len(data), some |-> TRUE, token |-> data]
       ELSE [advance |-> 0, some |-> FALSE, token |-> << >>]

\* docScanner.Scan() on the unread bytes of the source: the scanner buffers at
\* most MaxScanTokenSize bytes, sees the end of the source once all of it is
\* buffered, and gives up with ErrTooLong when a full buffer holds no token;
\* readErr is the error the source ends with, nil for io.EOF
Scan(data, readErr) ==
    LET atEOF == Len(data) < MaxScanTokenSize
        window == IF atEOF THEN data ELSE SubSeq(data, 1, MaxScanTokenSize)
        split == splitBsonFunc(window, atEOF)
    IN IF split.some
       THEN [more |-> TRUE, token |-> split.token,
             rest |-> SubSeq(data, split.advance + 1, Len(data)), err |-> NilErr]
       ELSE [more |-> FALSE, token |-> << >>, rest |-> data,
             err |-> IF atEOF THEN readErr
                     ELSE ErrNew("bufio.Scanner: token too long")]

\* bsonEncoder.decodeSingle: bson.NewFromIOReader reads the length and then
\* the document, UnmarshalWithRegistry yields its field bytes
decodeSingle(source) ==
    IF Len(source) = 0 THEN [err |-> ErrNew("EOF"), val |-> << >>]
    ELSE IF source[1] < 2 \/ Len(source) < source[1]
    THEN [err |-> ErrNew("unexpected EOF"), val |-> << >>]
    ELSE IF source[source[1]] # 0
    THEN [err |-> ErrNew("invalid document"), val |-> << >>]
    ELSE [err |-> NilErr, val |-> SubSeq(source, 2, source[1] - 1)]

\* decodeMany: the loop over docScanner.Scan(); chunks are the tokens the
\* scanner delivered so far, scanErr is docScanner.Err() when the loop ends
RECURSIVE scanDocs(_, _, _, _)
scanDocs(slice, data, chunks, readErr) ==
    LET s == Scan(data, readErr)
    IN IF ~s.more
       THEN [err |-> NilErr, slice |-> slice, chunks |-> chunks, scanErr |-> s.err]
       ELSE LET doc == decodeSingle(s.token)
            IN IF doc.err # NilErr
               THEN [err |-> doc.err, slice |-> slice,
                     chunks |-> Append(chunks, s.token), scanErr |-> NilErr]
               ELSE scanDocs(Append(slice, doc.val), s.rest,
                             Append(chunks, s.token), readErr)

\* variant: the kind of the receiver is not looked at
SlicePointerMissing_Unchecked(receiver) == FALSE

\* decodeMany: slicePointer.Kind() != reflect.Ptr
SlicePointerMissing(receiver) == ~receiver.ptr

\* bsonEncoder.decodeMany
decodeMany(receiver, data, readErr) ==
    IF SlicePointerMissing(receiver)
    THEN [res |-> Returned(ErrNew("slice receiver must be pointer")),
          items |-> receiver.items, chunks |-> << >>, scanErr |-> NilErr]
    ELSE IF ~receiver.ptr
    THEN [res |-> Panicked(ErrNew("reflect: call of reflect.Value.Elem on slice Value")),
          items |-> receiver.items, chunks |-> << >>, scanErr |-> NilErr]
    ELSE LET r == scanDocs(receiver.items, data, << >>, readErr)
         IN [res |-> Returned(r.err), items |-> r.slice, chunks |-> r.chunks,
             scanErr |-> r.scanErr]

\* bsonEncoder.Decode: the outcome, the receiver's elements and the scanner's
\* unread error
bsonDecode(passEngine, receiver, data, readErr) ==
    IF passEngine # SelfEngine
    THEN [res |-> Panicked(TypeAssertErr), items |-> receiver.items,
          chunks |-> << >>, scanErr |-> NilErr]
    ELSE IF isSequence(receiver) THEN decodeMany(receiver, data, readErr)
    ELSE LET whole == decodeSingle(data)
             short == Len(data) = 0 \/ data[1] < 2 \/ Len(data) < data[1]
             doc == IF short /\ readErr # NilErr
                    THEN [err |-> readErr, val |-> << >>]
                    ELSE whole
         IN [res |-> Returned(doc.err),
             items |-> IF doc.err = NilErr THEN <<doc.val>> ELSE receiver.items,
             chunks |-> << >>, scanErr |-> NilErr]

(* ------------------------------------------------------------------ *)
(* BSON registry and JSON handle                                       *)
(* ------------------------------------------------------------------ *)
\* value types a BSON codec is registered for
ValueTypes == {"uuid.UUID", "Name", "Money"}

\* a BsonCodecOpts value
Opts(valueType, codec) == [type |-> valueType, codec |-> codec]

defaultBsonCodecs == <<Opts("uuid.UUID", "bsonCodecUUID")>>

\* the builder after RegisterDefaultEncoders and RegisterDefaultDecoders: no
\* codec of its own for any of ValueTypes
NewRegistryBuilder == [t \in ValueTypes |-> NoCodec]

\* the builder after the loop over codecs: RegisterCodec for each, in order
RECURSIVE RegisterCodecs(_, _)
RegisterCodecs(builder, codecs) ==
    IF codecs = << >> THEN builder
    ELSE RegisterCodecs([builder EXCEPT ![Head(codecs).type] = Head(codecs).codec],
                        Tail(codecs))

\* types the JSON handle can hold an extension for
ExtTypes == {"primitive.Binary", "bson.Raw", "badType"}

\* a JSONExtensionOpts value
ExtOpts(valueType, ext) == [type |-> valueType, ext |-> ext]

defaultJSONExtensions == <<ExtOpts("primitive.Binary", "jsonExtBsonBinary")>>

\* jsonHandle.SetInterfaceExt(valueType, 1, ext)
SetInterfaceExt(handle, valueType, ext) == [handle EXCEPT ![valueType] = ext]

\* the handle after the loop of AddJSONExtensions
RECURSIVE ExtensionsAdded(_, _)
ExtensionsAdded(handle, extensions) ==
    IF extensions = << >> THEN handle
    ELSE ExtensionsAdded(
            SetInterfaceExt(handle, Head(extensions).type,
                            [ext |-> Head(extensions).ext,
                             bsonRegistry |-> NewRegistryBuilder]),
            Tail(extensions))

\* the codec list, the registry and the handle after AddBSONCodecs(codecs)
BSONCodecsAdded(stored, handle, codecs) ==
    LET registry == RegisterCodecs(NewRegistryBuilder, codecs)
    IN [bsonCodecs |-> stored \o codecs,
        bsonRegistry |-> registry,
        jsonHandle |-> SetInterfaceExt(handle, "bson.Raw",
                            [ext |-> "jsonExtBsonRaw", bsonRegistry |-> registry])]

\* the type a field's extension is looked up by
BaseType(fieldType) ==
    CASE fieldType = "*bson.Raw" -> "bson.Raw"
      [] fieldType = "*primitive.Binary" -> "primitive.Binary"
      [] OTHER -> fieldType

\* variant: the extension stores the value
UpdateExt_Accepts(ext) == Returned(NilErr)

\* UpdateExt of an extension
UpdateExt(ext) ==
    CASE ext = "jsonExtBsonBinary" ->
            Panicked(ErrNew("decoding to bson binary field not supported -- use uuid or BinData type as intermediary"))
      [] ext = "jsonExtBsonRaw" ->
            Panicked(ErrNew("Decoding to BSON raw field not supported"))
      [] OTHER -> Panicked(ErrNew("Whoops"))

\* jsonDecoder.Decode: the codec library turns a panic of an extension into
\* its own error; a field without an extension takes a string only
DecoderDecode(handle, fieldType, value) ==
    IF value = "absent" THEN Returned(NilErr)
    ELSE IF fieldType \in ExtTypes \/ BaseType(fieldType) # fieldType
    THEN IF handle[BaseType(fieldType)].ext # "none"
         THEN LET body == UpdateExt(handle[BaseType(fieldType)].ext)
              IN IF body.kind = "panic"
                 THEN Returned(Errorf("json decode error", body.val))
                 ELSE body
         ELSE Returned(ErrNew("json decode error"))
    ELSE IF value = "string" THEN Returned(NilErr)
    ELSE Returned(ErrNew("json decode error"))

\* jsonEncoder.Decode
jsonDecode(passEngine, handle, fieldType, value) ==
    IF passEngine # SelfEngine THEN Panicked(TypeAssertErr)
    ELSE DecoderDecode(handle, fieldType, value)

(* ------------------------------------------------------------------ *)
(* mimetype.FromString.  Strings are sequences of characters.          *)
(* ------------------------------------------------------------------ *)
YAML == "application/yaml"

\* the characters of the default mimetypes
Chars(mimeType) ==
    CASE mimeType = JSON -> <<"a", "p", "p", "l", "i", "c", "a", "t", "i", "o", "n", "/", "j", "s", "o", "n">>
      [] mimeType = BSON -> <<"a", "p", "p", "l", "i", "c", "a", "t", "i", "o", "n", "/", "b", "s", "o", "n">>
      [] mimeType = YAML -> <<"a", "p", "p", "l", "i", "c", "a", "t", "i", "o", "n", "/", "y", "a", "m", "l">>
      [] mimeType = TEXT -> <<"t", "e", "x", "t", "/", "p", "l", "a", "i", "n">>
      [] OTHER -> << >>

objectMimeTypes == <<JSON, BSON, YAML>>

UpperCase == <<"A", "B", "C", "D", "E", "F", "G", "H", "I", "J", "K", "L", "M", "N", "O", "P", "Q", "R", "S", "T", "U", "V", "W", "X", "Y", "Z">>
LowerCase == <<"a", "b", "c", "d", "e", "f", "g", "h", "i", "j", "k", "l", "m", "n", "o", "p", "q", "r", "s", "t", "u", "v", "w", "x", "y", "z">>

\* strings.ToLower
ToLower(str) ==
    [i \in 1..Len(str) |->
        IF \E k \in 1..Len(UpperCase) : UpperCase[k] = str[i]
        THEN LowerCase[CHOOSE k \in 1..Len(UpperCase) : UpperCase[k] = str[i]]
        ELSE str[i]]

\* strings.Split(str, sep) for a separator of one character
RECURSIVE Split(_, _)
Split(str, sep) ==
    IF \A i \in 1..Len(str) : str[i] # sep THEN <<str>>
    ELSE LET k == CHOOSE i \in 1..Len(str) :
                    str[i] = sep /\ \A j \in 1..(i - 1) : str[j] # sep
         IN <<SubSeq(str, 1, k - 1)>> \o Split(SubSeq(str, k + 1, Len(str)), sep)

\* strings.HasSuffix
HasSuffix(str, suffix) ==
    /\ Len(str) >= Len(suffix)
    /\ SubSeq(str, Len(str) - Len(suffix) + 1, Len(str)) = suffix

\* variant: the incoming string is taken as it is
Lowered_AsIs(incoming) == incoming

\* FromString: incoming = strings.ToLower(incoming)
Lowered(incoming) == ToLower(incoming)

\* FromString: the loop over objectMimeTypes from index i on, and the
\* custom mimetype when no default matches
RECURSIVE MatchObjectType(_, _)
MatchObjectType(incoming, i) ==
    IF i > Len(objectMimeTypes) THEN incoming
    ELSE LET mimeTypeLower == Split(ToLower(Chars(objectMimeTypes[i])), "/")[2]
         IN IF HasSuffix(incoming, mimeTypeLower) THEN Chars(objectMimeTypes[i])
            ELSE MatchObjectType(incoming, i + 1)

\* mimetype.FromString
FromString(str) ==
    LET incoming == Lowered(str)
    IN IF incoming = << >> THEN Chars(UNKNOWN)
       ELSE IF incoming = <<"t", "e", "x", "t", "/", "p", "l", "a", "i", "n">>
                \/ incoming = <<"t", "e", "x", "t">>
       THEN Chars(TEXT)
       ELSE MatchObjectType(incoming, 1)

(* ------------------------------------------------------------------ *)
(* spanerrors.ErrorFromHeaders                                         *)
(* ------------------------------------------------------------------ *)
DigitChars == <<"0", "1", "2", "3", "4", "5", "6", "7", "8", "9">>


\* the number a run of decimal digits stands for
RECURSIVE DecimalValue(_)
DecimalValue(digits) ==
    IF digits = << >> THEN 0
    ELSE 10 * DecimalValue(SubSeq(digits, 1, Len(digits) - 1))
         + (CHOOSE k \in 1..Len(DigitChars) :
                DigitChars[k] = digits[Len(digits)]) - 1

\* strconv.Atoi: an optional sign and at least one decimal digit
Atoi(str) ==
    LET signed == str # << >> /\ str[1] \in {"+", "-"}
        digits == IF signed THEN Tail(str) ELSE str
    IN IF digits = << >> \/ \E i \in 1..Len(digits) :
                                \A k \in 1..Len(DigitChars) : DigitChars[k] # digits[i]
       THEN [err |-> ErrNew("invalid syntax"), val |-> 0]
       ELSE [err |-> NilErr,
             val |-> IF signed /\ str[1] = "-" THEN 0 - DecimalValue(digits)
                     ELSE DecimalValue(digits)]

\* a nil map[int]*SpanErrorType
NilIndex == << >>

\* spanerrors.ErrorTypeCodeIndex: API code -> error type
ErrorTypeCodeIndex ==
    [code \in 1000..1006 |->
        CASE code = 1000 -> "APIError"
          [] code = 1001 -> "InvalidMethodError"
          [] code = 1002 -> "NothingToReturnError"
          [] code = 1003 -> "RequestValidationError"
          [] code = 1004 -> "APILimitError"
          [] code = 1005 -> "ResponseValidationError"
          [] OTHER -> "Server Error"]

\* a map[string]interface{}: nil, or a set of <<key, value>> entries
NilBag == [isNil |-> TRUE, entries |-> {}]
MakeBag(entries) == [isNil |-> FALSE, entries |-> entries]
EmptyBag == MakeBag({})

\* a nil *SpanError
NilSpanError == [type |-> "nil", message |-> "", id |-> "", data |-> NilBag]

\* UUID.String: the canonical text of an identifier, the nil UUID
\* "nil-uuid" or a generated one "dns-uuid"
UuidString(id) ==
    IF id = "nil-uuid" THEN "00000000-0000-0000-0000-000000000000"
    ELSE "6ba7b810-9dad-11d1-80b4-00c04fd430c8"

\* textual identifiers uuid.FromString accepts: the canonical form and the
\* URN form
UuidStrings ==
    {UuidString(id) : id \in {"nil-uuid", "dns-uuid"}}
    \cup {"urn:uuid:6ba7b810-9dad-11d1-80b4-00c04fd430c8"}

\* uuid.FromString
UuidFromString(str) ==
    IF str \in UuidStrings
    THEN [err |-> NilErr,
          id |-> IF str = UuidString("nil-uuid") THEN "nil-uuid" ELSE "dns-uuid"]
    ELSE [err |-> ErrNew("uuid: incorrect UUID"), id |-> ""]

\* the JSON decoder reading an object into a map[string]interface{}
ParseJson(text) ==
    CASE text = "{}" -> [ok |-> TRUE, entries |-> {}]
      [] text = "{\"key\":\"value\"}" ->
            [ok |-> TRUE, entries |-> {<<"key", "value">>}]
      [] OTHER -> [ok |-> FALSE, entries |-> {}]

\* what the JSON decoder finds in an error-data header
DataPayload(errorDataStr) ==
    IF ParseJson(errorDataStr).ok THEN "json" ELSE "bad"

\* variant: the loaded error keeps the identifier New generated
IdAssigned_Fresh(newID, errorID) == newID

\* spanError.Id = errorID; newID is the identifier uuid.NewV4 generated
\* inside New ("new-uuid": none that exists already)
IdAssigned(newID, errorID) == errorID

\* variant: the error-id is parsed before the index is consulted
ErrorFromHeaders_IdFirst(headers, decodeErr, errorTypeCodeIndex) ==
    LET errorCodeStr == headers.code
        errorCode == Atoi(errorCodeStr)
        errorID == UuidFromString(headers.id)
        failed(hasError, msg) ==
            [spanError |-> NilSpanError, hasError |-> hasError, err |-> msg]
    IN IF errorCodeStr = << >> THEN failed(FALSE, <<"no error in headers">>)
       ELSE IF errorCode.err # NilErr
       THEN failed(FALSE, <<"error-code not int">>)
       ELSE IF errorID.err # NilErr
       THEN failed(TRUE, <<"error Id is not valid UUID">>)
       ELSE IF errorTypeCodeIndex = NilIndex
       THEN failed(TRUE, <<"no error index provided">>)
       ELSE IF errorCode.val \notin DOMAIN errorTypeCodeIndex
       THEN failed(TRUE, <<"no known error for code ", errorCodeStr>>)
       ELSE IF headers.data # "" /\ decodeErr # NilErr
       THEN failed(TRUE, <<"error data could not be parsed as JSON">>)
       ELSE [spanError |-> [type |-> errorTypeCodeIndex[errorCode.val],
                            message |-> headers.message,
                            id |-> IdAssigned("new-uuid", errorID.id),
                            data |-> IF headers.data # ""
                                     THEN MakeBag(ParseJson(headers.data).entries)
                                     ELSE EmptyBag],
             hasError |-> TRUE, err |-> NilErr]

\* spanerrors.ErrorFromHeaders; decodeErr is what dataEngine.Decode returns
\* for the error-data header
ErrorFromHeaders(headers, decodeErr, errorTypeCodeIndex) ==
    LET errorCodeStr == headers.code
        errorCode == Atoi(errorCodeStr)
        errorID == UuidFromString(headers.id)
        failed(hasError, msg) ==
            [spanError |-> NilSpanError, hasError |-> hasError, err |-> msg]
    IN IF errorCodeStr = << >> THEN failed(FALSE, <<"no error in headers">>)
       ELSE IF errorCode.err # NilErr
       THEN failed(FALSE, <<"error-code not int">>)
       ELSE IF errorTypeCodeIndex = NilIndex
       THEN failed(TRUE, <<"no error index provided">>)
       ELSE IF errorCode.val \notin DOMAIN errorTypeCodeIndex
       THEN failed(TRUE, <<"no known error for code ", errorCodeStr>>)
       ELSE IF errorID.err # NilErr
       THEN failed(TRUE, <<"error Id is not valid UUID">>)
       ELSE IF headers.data # "" /\ decodeErr # NilErr
       THEN failed(TRUE, <<"error data could not be parsed as JSON">>)
       ELSE [spanError |-> [type |-> errorTypeCodeIndex[errorCode.val],
                            message |-> headers.message,
                            id |-> IdAssigned("new-uuid", errorID.id),
                            data |-> IF headers.data # ""
                                     THEN MakeBag(ParseJson(headers.data).entries)
                                     ELSE EmptyBag],
             hasError |-> TRUE, err |-> NilErr]

(* ------------------------------------------------------------------ *)
(* SpanError.ToHeader                                                  *)
(* ------------------------------------------------------------------ *)
\* the decimal digits of a natural number
RECURSIVE DecimalDigits(_)
DecimalDigits(n) ==
    IF n < 10 THEN <<DigitChars[n + 1]>>
    ELSE Append(DecimalDigits(n \div 10), DigitChars[(n % 10) + 1])

\* strconv.Itoa
Itoa(n) == IF n < 0 THEN <<"-">> \o DecimalDigits(0 - n) ELSE DecimalDigits(n)

\* an empty http.Header
NewHeader == [key \in {} |-> ""]

\* http.Header.Set
Set(header, key, value) ==
    [k \in DOMAIN header \cup {key} |-> IF k = key THEN value ELSE header[k]]

\* http.Header.Get: the empty string when the key is absent; the text of a
\* header that holds a number is kept as a sequence of characters
Get(header, key) ==
    IF key \in DOMAIN header THEN header[key]
    ELSE IF key \in {"error-code", "paging-offset", "paging-limit",
                     "paging-total-items", "paging-total-pages",
                     "paging-current-page"}
    THEN << >> ELSE ""

\* dataEngine.Encode(mimetype.JSON, spanError.ErrorData, &dataBytes) once the
\* engine has picked its encoder with result engineErr: a value whose JSON
\* extension panics fails the encoding
EncodeBag(engineErr, bag) ==
    IF engineErr # NilErr THEN [err |-> engineErr, text |-> ""]
    ELSE IF \E entry \in bag.entries : entry[2] = "unencodable"
    THEN [err |-> Errorf("encode err", ErrNew("json encode error: Whoops")),
          text |-> ""]
    ELSE [err |-> NilErr,
          text |-> IF bag.entries = {} THEN "{}" ELSE "{\"key\":\"value\"}"]

\* variant: the data bag is encoded before any header is written
ToHeader_EncodeFirst(setter, spanError, encoded) ==
    LET named == Set(setter, "error-name", spanError.type.name)
        coded == Set(named, "error-code", Itoa(spanError.type.apiCode))
        messaged == Set(coded, "error-message", spanError.message)
        identified == Set(messaged, "error-id", UuidString(spanError.id))
    IN IF ~spanError.data.isNil
       THEN IF encoded.err # NilErr
            THEN [header |-> setter, err |-> encoded.err]
            ELSE [header |-> Set(identified, "error-data", encoded.text),
                  err |-> NilErr]
       ELSE [header |-> identified, err |-> NilErr]

\* SpanError.ToHeader; encoded is what dataEngine.Encode gives for the data
\* bag
ToHeader(setter, spanError, encoded) ==
    LET named == Set(setter, "error-name", spanError.type.name)
        coded == Set(named, "error-code", Itoa(spanError.type.apiCode))
        messaged == Set(coded, "error-message", spanError.message)
        identified == Set(messaged, "error-id", UuidString(spanError.id))
    IN IF ~spanError.data.isNil
       THEN IF encoded.err # NilErr
            THEN [header |-> identified, err |-> encoded.err]
            ELSE [header |-> Set(identified, "error-data", encoded.text),
                  err |-> NilErr]
       ELSE [header |-> identified, err |-> NilErr]

(* ------------------------------------------------------------------ *)
(* Paging headers                                                      *)
(* ------------------------------------------------------------------ *)
\* PagingReq.ToParams
ToParams(params, pagingReq) ==
    LET offset == Set(params, "paging-offset", Itoa(pagingReq.Offset))
    IN IF pagingReq.Limit > 0
       THEN Set(offset, "paging-limit", Itoa(pagingReq.Limit))
       ELSE offset

\* PagingResp.ToHeaders
ToHeaders(headers, pagingResp) ==
    LET req == ToParams(headers, pagingResp)
        items == IF pagingResp.TotalItems > 0
                 THEN Set(req, "paging-total-items", Itoa(pagingResp.TotalItems))
                 ELSE req
        pages == IF pagingResp.TotalPages > 0
                 THEN Set(items, "paging-total-pages", Itoa(pagingResp.TotalPages))
                 ELSE items
        current == IF pagingResp.CurrentPage > -1
                   THEN Set(pages, "paging-current-page",
                            Itoa(pagingResp.CurrentPage))
                   ELSE pages
        previous == IF pagingResp.Previous # ""
                    THEN Set(current, "paging-previous", pagingResp.Previous)
                    ELSE current
    IN IF pagingResp.Next # ""
       THEN Set(previous, "paging-next", pagingResp.Next)
       ELSE previous

\* getInt: the default when the header is absent, else its integer value
getInt(headers, fieldName, defaultValue) ==
    LET value == Get(headers, fieldName)
    IN IF value = << >> THEN [val |-> defaultValue, err |-> NilErr]
       ELSE IF Atoi(value).err # NilErr
       THEN [val |-> 0, err |-> <<fieldName, " is not int">>]
       ELSE [val |-> Atoi(value).val, err |-> NilErr]

\* a nil *PagingResp
NilPaging ==
    [Offset |-> 0, Limit |-> 0, TotalItems |-> 0, TotalPages |-> 0,
     CurrentPage |-> 0, Next |-> "", Previous |-> "", isNil |-> TRUE]

\* PagingRespFromHeaders, PagingReqFromParams included
PagingRespFromHeaders(params, defaultLimit) ==
    LET offset == getInt(params, "paging-offset", 0)
        limit == getInt(params, "paging-limit", defaultLimit)
        pages == getInt(params, "paging-total-pages", -1)
        items == getInt(params, "paging-total-items", -1)
        current == getInt(params, "paging-current-page", -1)
    IN IF offset.err # NilErr THEN [pagingResp |-> NilPaging, err |-> offset.err]
       ELSE IF limit.err # NilErr THEN [pagingResp |-> NilPaging, err |-> limit.err]
       ELSE IF pages.err # NilErr THEN [pagingResp |-> NilPaging, err |-> pages.err]
       ELSE IF items.err # NilErr THEN [pagingResp |-> NilPaging, err |-> items.err]
       ELSE IF current.err # NilErr
       THEN [pagingResp |-> NilPaging, err |-> current.err]
       ELSE [pagingResp |->
                [Offset |-> offset.val, Limit |-> limit.val,
                 TotalItems |-> items.val, TotalPages |-> pages.val,
                 CurrentPage |-> current.val,
                 Next |-> Get(params, "paging-next"),
                 Previous |-> Get(params, "paging-previous"), isNil |-> FALSE],
             err |-> NilErr]

(* ------------------------------------------------------------------ *)
(* Engine state                                                        *)
(* ------------------------------------------------------------------ *)
VARIABLES
    encoders,       \* MimeType -> codec or NoCodec
    decoders,       \* MimeType -> codec or NoCodec
    decoderList,    \* cached list of the registered decoders
    sniffMimeType,  \* whether Decode may sniff
    passedEngine,   \* engine passed to the codecs, "nil" when unset
    regs,           \* registration calls made so far
    lastEnc,        \* history: codec of the latest SetEncoder per format
    lastDec,        \* history: codec of the latest SetDecoder per format
    calls,          \* per caller: the call in progress or just finished
    bsonIO,         \* the latest call of the BSON codec and its sink or source
    bsonCodecs,     \* every BsonCodecOpts handed to AddBSONCodecs so far
    bsonRegistry,   \* value type -> codec of the registry in use
    jsonHandle,     \* extension type -> extension of the JSON handle
    jsonIO,         \* the latest Decode(JSON) into a struct with one field
    mimeQ,          \* the latest mimetype.FromString call
    hdrQ,           \* the latest spanerrors.ErrorFromHeaders call
    errQ,           \* an error sent through response headers
    pageQ           \* paging information sent through response headers

vars == <<encoders, decoders, decoderList, sniffMimeType, passedEngine,
          regs, lastEnc, lastDec, calls, bsonIO, bsonCodecs, bsonRegistry,
          jsonHandle, jsonIO, mimeQ, hdrQ, errQ, pageQ>>

registryVars == <<bsonCodecs, bsonRegistry, jsonHandle>>

\* state of the codecs and packages beside the engine's maps
libVars == <<bsonIO, registryVars, jsonIO, mimeQ, hdrQ, errQ, pageQ>>

engineVars == <<encoders, decoders, decoderList, sniffMimeType, passedEngine>>

histVars == <<regs, lastEnc, lastDec>>

\* goroutines calling into the shared engine
Callers == {1, 2}

\* the orders in which a range over the decoder map can visit its keys
KeyOrders(decs) ==
    LET keys == {f \in MimeType : decs[f] # NoCodec}
    IN {s \in [1..Cardinality(keys) -> keys] :
            \A i, j \in 1..Cardinality(keys) : i # j => s[i] # s[j]}

\* variant: the loop stops before the last key
RebuiltList_Short(decs, order) ==
    [i \in 1..(Len(order) - 1) |-> decs[order[i]]]

\* the cached decoder list SetDecoder builds by ranging over the map
RebuiltList(decs, order) == [i \in DOMAIN order |-> decs[order[i]]]

IdleCall ==
    [op |-> "none", pc |-> "idle", mimeType |-> UNKNOWN, resolved |-> UNKNOWN,
     content |-> "struct", closer |-> FALSE, closed |-> 0, reads |-> 0,
     codec |-> NoCodec, list |-> << >>, idx |-> 0, buffer |-> "bad",
     decoderErr |-> NilErr, attempts |-> << >>, readers |-> << >>,
     invoked |-> << >>,
     written |-> NoBytes, err |-> NilErr, escaped |-> FALSE, answer |-> FALSE]

\* no caller is inside the engine or still holds a result
Quiescent == \A p \in Callers : calls[p].pc = "idle"

(* ------------------------------------------------------------------ *)
(* Construction and registration                                       *)
(* ------------------------------------------------------------------ *)
BuiltinMap == [f \in MimeType |->
    CASE f = JSON -> "json" [] f = BSON -> "bson" [] f = TEXT -> "text"
      [] OTHER -> NoCodec]

\* no value given: the content or receiver of a call not made yet
NoValue == [type |-> "none", ptr |-> FALSE, items |-> << >>]

\* the BSON codec has not been called
IdleBson ==
    [pc |-> "idle", content |-> NoValue, sink |-> NewSink(0),
     encErr |-> NilErr, receiver |-> NoValue, source |-> << >>,
     items |-> << >>, chunks |-> << >>, err |-> NilErr, escaped |-> FALSE,
     scanErr |-> NilErr, readErr |-> NilErr]

\* FromString has not been called
IdleMime == [pc |-> "idle", incoming |-> << >>, result |-> << >>]

\* ErrorFromHeaders has not been called
IdleHeaders ==
    [pc |-> "idle",
     headers |-> [code |-> << >>, message |-> "", id |-> "", data |-> ""],
     indexed |-> FALSE,
     spanError |-> NilSpanError, hasError |-> FALSE, err |-> NilErr]

\* no error has been written to headers
IdleError ==
    [pc |-> "idle",
     e |-> [type |-> ([name |-> "", apiCode |-> 0]), message |-> "", id |-> "nil-uuid",
            data |-> NilBag],
     header |-> NewHeader, err |-> NilErr, indexed |-> FALSE,
     loaded |-> NilSpanError, hasError |-> FALSE, loadErr |-> NilErr]

\* no paging information has been written
IdlePaging ==
    [pc |-> "idle", pagingResp |-> NilPaging, headers |-> NewHeader,
     loaded |-> NilPaging, err |-> NilErr]

\* no Decode(JSON) has been made
IdleJson ==
    [pc |-> "idle", fieldType |-> "string", value |-> "absent", err |-> NilErr,
     escaped |-> FALSE]

\* NewContentEngine: AddJSONExtensions(defaultJSONExtensions), then
\* AddBSONCodecs(defaultBsonCodecs)
BuiltinCodecs ==
    BSONCodecsAdded(<< >>,
                    ExtensionsAdded(
                        [t \in ExtTypes |->
                            [ext |-> "none", bsonRegistry |-> NewRegistryBuilder]],
                        defaultJSONExtensions),
                    defaultBsonCodecs)

\* NewContentEngine(allowSniff)
Init ==
    /\ encoders = BuiltinMap
    /\ decoders = BuiltinMap
    /\ \E order \in KeyOrders(BuiltinMap) : decoderList = RebuiltList(BuiltinMap, order)
    /\ sniffMimeType \in BOOLEAN
    /\ passedEngine = "nil"
    /\ regs = 0
    /\ lastEnc = BuiltinMap
    /\ lastDec = BuiltinMap
    /\ calls = [p \in Callers |-> IdleCall]
    /\ bsonIO = IdleBson
    /\ bsonCodecs = BuiltinCodecs.bsonCodecs
    /\ bsonRegistry = BuiltinCodecs.bsonRegistry
    /\ jsonHandle = BuiltinCodecs.jsonHandle
    /\ jsonIO = IdleJson
    /\ mimeQ = IdleMime
    /\ hdrQ = IdleHeaders
    /\ errQ = IdleError
    /\ pageQ = IdlePaging

\* SpanEngine.SetPassedEngine
SetPassedEngine(newEngine) ==
    /\ Quiescent
    /\ regs < MaxRegs
    /\ passedEngine' = newEngine
    /\ regs' = regs + 1
    /\ UNCHANGED <<encoders, decoders, decoderList, sniffMimeType, lastEnc,
                   lastDec, calls, libVars>>

\* variant: an encoder already registered for the format is kept
EncodersAfterSet_FirstWins(encs, mimeType, encoder) ==
    IF encs[mimeType] # NoCodec THEN encs ELSE [encs EXCEPT ![mimeType] = encoder]

\* the encoder map after SetEncoder(mimeType, encoder)
EncodersAfterSet(encs, mimeType, encoder) == [encs EXCEPT ![mimeType] = encoder]

\* SpanEngine.SetEncoder
SetEncoder(mimeType, encoder) ==
    /\ Quiescent
    /\ regs < MaxRegs
    /\ encoders' = EncodersAfterSet(encoders, mimeType, encoder)
    /\ lastEnc' = [lastEnc EXCEPT ![mimeType] = encoder]
    /\ regs' = regs + 1
    /\ UNCHANGED <<decoders, decoderList, sniffMimeType, passedEngine, lastDec,
                   calls, libVars>>

\* variant: the map is made anew and holds the new decoder only
DecodersAfterSet_Alone(decs, mimeType, decoder) ==
    [f \in MimeType |-> IF f = mimeType THEN decoder ELSE NoCodec]

\* the decoder map after SetDecoder(mimeType, decoder)
DecodersAfterSet(decs, mimeType, decoder) == [decs EXCEPT ![mimeType] = decoder]

\* SpanEngine.SetDecoder
SetDecoder(mimeType, decoder) ==
    /\ Quiescent
    /\ regs < MaxRegs
    /\ decoders' = DecodersAfterSet(decoders, mimeType, decoder)
    /\ \E order \in KeyOrders(decoders') :
            decoderList' = RebuiltList(decoders', order)
    /\ lastDec' = [lastDec EXCEPT ![mimeType] = decoder]
    /\ regs' = regs + 1
    /\ UNCHANGED <<encoders, sniffMimeType, passedEngine, lastEnc, calls,
                   libVars>>

(* ------------------------------------------------------------------ *)
(* Queries                                                             *)
(* ------------------------------------------------------------------ *)
HandlesEncodeOf(encs, mimeType) == encs[mimeType] # NoCodec
HandlesDecodeOf(decs, mimeType) == decs[mimeType] # NoCodec

\* the record of a finished query
Answered(op, mimeType, answer) ==
    [IdleCall EXCEPT !.op = op, !.pc = "done", !.mimeType = mimeType,
                     !.answer = answer]

\* SpanEngine.SniffType
SniffType(p) ==
    /\ calls[p].pc = "idle"
    /\ calls' = [calls EXCEPT ![p] = Answered("SniffType", UNKNOWN, sniffMimeType)]
    /\ UNCHANGED <<engineVars, histVars, libVars>>

\* SpanEngine.HandlesEncode
HandlesEncode(p, mimeType) ==
    /\ calls[p].pc = "idle"
    /\ calls' = [calls EXCEPT ![p] =
            Answered("HandlesEncode", mimeType, HandlesEncodeOf(encoders, mimeType))]
    /\ UNCHANGED <<engineVars, histVars, libVars>>

\* SpanEngine.HandlesDecode
HandlesDecode(p, mimeType) ==
    /\ calls[p].pc = "idle"
    /\ calls' = [calls EXCEPT ![p] =
            Answered("HandlesDecode", mimeType, HandlesDecodeOf(decoders, mimeType))]
    /\ UNCHANGED <<engineVars, histVars, libVars>>

\* SpanEngine.Handles
Handles(p, mimeType) ==
    /\ calls[p].pc = "idle"
    /\ calls' = [calls EXCEPT ![p] =
            Answered("Handles", mimeType,
                     HandlesEncodeOf(encoders, mimeType)
                     /\ HandlesDecodeOf(decoders, mimeType))]
    /\ UNCHANGED <<engineVars, histVars, libVars>>

(* ------------------------------------------------------------------ *)
(* Mimetype inference and panic-safe invocation                        *)
(* ------------------------------------------------------------------ *)
\* variant: decoding defaults to JSON as encoding does
pickContentMimeType_JsonDefault(mimeType, content, encoding) ==
    IF mimeType = UNKNOWN
    THEN IF content \in {"string", "strptr"} THEN TEXT ELSE JSON
    ELSE mimeType

\* variant: the *string case is missing from the type switch
pickContentMimeType_NoPointerCase(mimeType, content, encoding) ==
    IF mimeType = UNKNOWN
    THEN LET useType == IF content = "string" THEN TEXT ELSE JSON
         IN IF encoding \/ useType = TEXT THEN useType ELSE mimeType
    ELSE mimeType

\* pickContentMimeType
pickContentMimeType(mimeType, content, encoding) ==
    IF mimeType = UNKNOWN
    THEN LET useType == IF content \in {"string", "strptr"} THEN TEXT ELSE JSON
         IN IF encoding \/ useType = TEXT THEN useType ELSE mimeType
    ELSE mimeType

\* SpanEngine.getEngine
getEngine(passed) == IF passed # "nil" THEN passed ELSE SelfEngine

\* the deferred recover of safeEncode / safeDecode applied to a codec body's
\* outcome: err is the named result, escaped tells whether a panic leaves the
\* function
Recover(prefix, body) ==
    IF body.kind = "panic"
    THEN IF body.val # NilPanic
         THEN [err |-> Errorf(prefix, body.val), escaped |-> FALSE]
         ELSE [err |-> NilErr, escaped |-> FALSE]
    ELSE [err |-> body.err, escaped |-> FALSE]

\* SpanEngine.safeDecode
safeDecode(decoder, passed, receiver, read) ==
    Recover("panic during decode",
            DecoderBody(decoder, getEngine(passed), receiver, read))

\* SpanEngine.safeEncode: the recovered result and the bytes written
safeEncode(encoder, passed, content) ==
    LET body == EncoderBody(encoder, getEngine(passed), content)
    IN [r |-> Recover("panic during encode", body.res), out |-> body.out]

(* ------------------------------------------------------------------ *)
(* Encode                                                              *)
(* ------------------------------------------------------------------ *)
\* SpanEngine.Encode up to the invocation of the encoder
EncodeCall(p, mimeType, content) ==
    /\ calls[p].pc = "idle"
    /\ LET resolved == pickContentMimeType(mimeType, content, TRUE)
           encoder == encoders[resolved]
           c0 == [IdleCall EXCEPT !.op = "Encode", !.mimeType = mimeType,
                                  !.resolved = resolved, !.content = content]
       IN calls' = [calls EXCEPT ![p] =
            IF encoder = NoCodec
            THEN [c0 EXCEPT !.pc = "done",
                            !.err = <<"no encoder for", resolved>>]
            ELSE [c0 EXCEPT !.pc = "encode", !.codec = encoder]]
    /\ UNCHANGED <<engineVars, histVars, libVars>>

\* SpanEngine.Encode: safeEncode and the return
EncodeInvoke(p) ==
    /\ calls[p].pc = "encode"
    /\ LET c == calls[p]
           s == safeEncode(c.codec, passedEngine, c.content)
       IN calls' = [calls EXCEPT ![p] =
            [c EXCEPT !.pc = "done",
                      !.invoked = Append(c.invoked, c.codec),
                      !.attempts = Append(c.attempts,
                            [codec |-> c.codec,
                             body |-> EncoderBody(c.codec, getEngine(passedEngine),
                                                  c.content).res]),
                      !.written = s.out,
                      !.escaped = s.r.escaped,
                      !.err = IF s.r.escaped THEN NilErr
                              ELSE IF s.r.err # NilErr
                                   THEN Errorf("encode err", s.r.err)
                                   ELSE NilErr]]
    /\ UNCHANGED <<engineVars, histVars, libVars>>

(* ------------------------------------------------------------------ *)
(* Decode                                                              *)
(* ------------------------------------------------------------------ *)
\* variant: the sniff flag is not consulted
DecodeRoute_IgnoreFlag(resolved, sniff, decs) ==
    IF resolved = UNKNOWN THEN "sniff"
    ELSE IF decs[resolved] = NoCodec THEN "nodecoder" ELSE "decode"

\* variant: a format without decoder falls back to sniffing
DecodeRoute_SniffFallback(resolved, sniff, decs) ==
    IF resolved = UNKNOWN
    THEN IF ~sniff THEN "disabled" ELSE "sniff"
    ELSE IF decs[resolved] = NoCodec
         THEN IF sniff THEN "sniff" ELSE "nodecoder"
         ELSE "decode"

\* SpanEngine.Decode: the branch taken for the resolved format
DecodeRoute(resolved, sniff, decs) ==
    IF resolved = UNKNOWN
    THEN IF ~sniff THEN "disabled" ELSE "sniff"
    ELSE IF decs[resolved] = NoCodec THEN "nodecoder" ELSE "decode"

\* SpanEngine.Decode up to the first read of the source
DecodeCall(p, mimeType, receiver, closer) ==
    /\ calls[p].pc = "idle"
    /\ LET resolved == pickContentMimeType(mimeType, receiver, FALSE)
           route == DecodeRoute(resolved, sniffMimeType, decoders)
           c0 == [IdleCall EXCEPT !.op = "Decode", !.mimeType = mimeType,
                                  !.resolved = resolved, !.content = receiver,
                                  !.closer = closer]
       IN calls' = [calls EXCEPT ![p] =
            CASE route = "disabled" ->
                    [c0 EXCEPT !.pc = "ret",
                        !.err = ErrNew("mimetype is unknown and sniffing is disabled")]
              [] route = "sniff" -> [c0 EXCEPT !.pc = "sniff"]
              [] route = "nodecoder" ->
                    [c0 EXCEPT !.pc = "ret", !.err = <<"no decoder for", resolved>>]
              [] route = "decode" ->
                    [c0 EXCEPT !.pc = "decode", !.codec = decoders[resolved]]]
    /\ UNCHANGED <<engineVars, histVars, libVars>>

\* SpanEngine.Decode with a registered decoder: safeDecode on the source
DecodeInvoke(p, read) ==
    /\ calls[p].pc = "decode"
    /\ LET c == calls[p]
           r == safeDecode(c.codec, passedEngine, c.content, read)
       IN calls' = [calls EXCEPT ![p] =
            [c EXCEPT !.pc = "ret",
                      !.reads = c.reads + 1,
                      !.buffer = read,
                      !.invoked = Append(c.invoked, c.codec),
                      !.attempts = Append(c.attempts,
                            [codec |-> c.codec,
                             body |-> DecoderBody(c.codec, getEngine(passedEngine),
                                                  c.content, read)]),
                      !.escaped = r.escaped,
                      !.err = IF r.escaped THEN NilErr
                              ELSE IF r.err # NilErr
                                   THEN Errorf("decode err", r.err)
                                   ELSE NilErr]]
    /\ UNCHANGED <<engineVars, histVars, libVars>>

\* sniffContent: buffer the whole source, then range over the cached list
SniffRead(p, read) ==
    /\ calls[p].pc = "sniff"
    /\ LET c == calls[p]
       IN calls' = [calls EXCEPT ![p] =
            IF read = "readfail"
            THEN [c EXCEPT !.pc = "ret", !.reads = c.reads + 1,
                           !.buffer = read,
                           !.err = Errorf("error reading contentBytes",
                                          ErrNew("read error"))]
            ELSE IF decoderList = << >>
                 THEN [c EXCEPT !.pc = "ret", !.reads = c.reads + 1,
                                !.buffer = read]
                 ELSE [c EXCEPT !.pc = "attempt", !.reads = c.reads + 1,
                                !.buffer = read, !.list = decoderList,
                                !.idx = 1]]
    /\ UNCHANGED <<engineVars, histVars, libVars>>

\* variant: the attempts share one reader, which the earlier attempts have
\* drained
NewBuffer_Shared(contentBuffer, earlier) ==
    IF earlier > 0 THEN "drained" ELSE contentBuffer

\* bytes.NewBuffer(contentBuffer.Bytes()): a reader of its own at the first
\* byte of the buffered payload, however many attempts have read before
NewBuffer(contentBuffer, earlier) == contentBuffer

\* decoderErr after an attempt that failed with thisErr
ChainErr(decoderErr, thisErr) ==
    IF decoderErr = NilErr THEN thisErr
    ELSE <<"decoding error">> \o thisErr \o <<"after">> \o decoderErr

\* variant: the loop does not break on the first success
SniffContinues_NoBreak(thisErr) == TRUE

\* whether the sniffing loop goes on after an attempt that returned thisErr
SniffContinues(thisErr) == thisErr # NilErr

\* variant: the decoder that succeeded is moved to the front of the cache
listAfterAttempt_Promote(list, idx, thisErr) ==
    IF thisErr = NilErr /\ idx \in DOMAIN list
    THEN <<list[idx]>> \o SubSeq(list, 1, idx - 1) \o SubSeq(list, idx + 1, Len(list))
    ELSE list

\* the cached list after an attempt: the loop only reads it
listAfterAttempt(list, idx, thisErr) == list

\* sniffContent: one iteration of the loop over the decoders, and the return
\* when the loop ends
SniffAttempt(p) ==
    /\ calls[p].pc = "attempt"
    /\ LET c == calls[p]
           decoder == c.list[c.idx]
           thisReader == NewBuffer(c.buffer, c.idx - 1)
           r == safeDecode(decoder, passedEngine, c.content, thisReader)
           c1 == [c EXCEPT !.invoked = Append(c.invoked, decoder),
                           !.readers = Append(c.readers, thisReader),
                           !.attempts = Append(c.attempts,
                                [codec |-> decoder,
                                 body |-> DecoderBody(decoder, getEngine(passedEngine),
                                                      c.content, thisReader)])]
       IN
       /\ calls' = [calls EXCEPT ![p] =
            IF r.escaped
            THEN [c1 EXCEPT !.pc = "ret", !.escaped = TRUE]
            ELSE IF SniffContinues(r.err)
                 THEN LET chained == ChainErr(c.decoderErr, r.err)
                      IN IF c.idx < Len(c.list)
                         THEN [c1 EXCEPT !.decoderErr = chained, !.idx = c.idx + 1]
                         ELSE [c1 EXCEPT !.decoderErr = chained, !.pc = "ret",
                                         !.err = chained]
                 ELSE [c1 EXCEPT !.pc = "ret", !.decoderErr = NilErr,
                                 !.err = NilErr]]
       /\ decoderList' = listAfterAttempt(decoderList, c.idx, r.err)
    /\ UNCHANGED <<encoders, decoders, sniffMimeType, passedEngine, histVars,
                   libVars>>

\* variant: the source is closed on the success path only
DeferredCloses_SuccessOnly(c) == IF c.closer /\ c.err = NilErr THEN 1 ELSE 0

\* how often the deferred function of Decode closes the source of call c
DeferredCloses(c) == IF c.closer THEN 1 ELSE 0

\* SpanEngine.Decode: the deferred Close runs, then Decode returns
DecodeReturn(p) ==
    /\ calls[p].pc = "ret"
    /\ calls' = [calls EXCEPT ![p] =
            [calls[p] EXCEPT !.pc = "done",
                             !.closed = calls[p].closed + DeferredCloses(calls[p])]]
    /\ UNCHANGED <<engineVars, histVars, libVars>>

\* the caller has looked at the result of its call and drops it
Release(p) ==
    /\ calls[p].pc = "done"
    /\ calls' = [calls EXCEPT ![p] = IdleCall]
    /\ UNCHANGED <<engineVars, histVars, libVars>>

\* SpanEngine.Encode run to completion on a given engine state
EncodeAlone(encs, passed, mimeType, content) ==
    LET resolved == pickContentMimeType(mimeType, content, TRUE)
        encoder == encs[resolved]
    IN IF encoder = NoCodec
       THEN [err |-> <<"no encoder for", resolved>>, written |-> NoBytes,
             invoked |-> << >>]
       ELSE LET s == safeEncode(encoder, passed, content)
            IN [err |-> IF s.r.err # NilErr THEN Errorf("encode err", s.r.err)
                        ELSE NilErr,
                written |-> s.out, invoked |-> <<encoder>>]

\* sniffContent's loop from index i on, run to completion
RECURSIVE SniffAlone(_, _, _, _, _, _)
SniffAlone(list, i, decoderErr, passed, receiver, buffer) ==
    IF i > Len(list) THEN [err |-> decoderErr, invoked |-> << >>]
    ELSE LET r == safeDecode(list[i], passed, receiver, NewBuffer(buffer, i - 1))
         IN IF SniffContinues(r.err)
            THEN LET rest == SniffAlone(list, i + 1, ChainErr(decoderErr, r.err),
                                        passed, receiver, buffer)
                 IN [err |-> rest.err, invoked |-> <<list[i]>> \o rest.invoked]
            ELSE [err |-> NilErr, invoked |-> <<list[i]>>]

\* SpanEngine.Decode run to completion on a given engine state, the source
\* yielding read
DecodeAlone(decs, list, sniff, passed, mimeType, receiver, read) ==
    LET resolved == pickContentMimeType(mimeType, receiver, FALSE)
        route == DecodeRoute(resolved, sniff, decs)
    IN CASE route = "disabled" ->
                [err |-> ErrNew("mimetype is unknown and sniffing is disabled"),
                 invoked |-> << >>]
         [] route = "sniff" ->
                IF read = "readfail"
                THEN [err |-> Errorf("error reading contentBytes", ErrNew("read error")),
                      invoked |-> << >>]
                ELSE SniffAlone(list, 1, NilErr, passed, receiver, read)
         [] route = "nodecoder" ->
                [err |-> <<"no decoder for", resolved>>, invoked |-> << >>]
         [] route = "decode" ->
                LET r == safeDecode(decs[resolved], passed, receiver, read)
                IN [err |-> IF r.err # NilErr THEN Errorf("decode err", r.err)
                            ELSE NilErr,
                    invoked |-> <<decs[resolved]>>]

(* ------------------------------------------------------------------ *)
(* Calls that reach the BSON codec                                     *)
(* ------------------------------------------------------------------ *)
\* SpanEngine.Encode(mimetype.BSON, content, writer) on a fresh sink
BsonEncodeCall(content, failAt) ==
    /\ bsonIO.pc = "idle"
    /\ encoders[BSON] = "bson"
    /\ LET body == bsonEncode(getEngine(passedEngine), NewSink(failAt), content)
           r == Recover("panic during encode", body.res)
       IN bsonIO' = [IdleBson EXCEPT
                        !.pc = "encoded", !.content = content,
                        !.sink = body.sink, !.escaped = r.escaped,
                        !.encErr = IF r.err # NilErr
                                   THEN Errorf("encode err", r.err) ELSE NilErr,
                        !.err = IF r.err # NilErr THEN Errorf("encode err", r.err)
                                ELSE NilErr]
    /\ UNCHANGED <<engineVars, histVars, calls, registryVars, jsonIO, mimeQ, hdrQ, errQ, pageQ>>

\* SpanEngine.Decode(mimetype.BSON, receiver, reader) where reader yields the
\* bytes the encoder wrote
BsonDecodeCall(receiver, failure) ==
    /\ bsonIO.pc = "encoded"
    /\ decoders[BSON] = "bson"
    /\ LET source == Flatten(bsonIO.sink.writes)
           delivered == IF failure = "mid"
                        THEN SubSeq(source, 1, Len(source) \div 2) ELSE source
           readErr == IF failure = "none" THEN NilErr ELSE ErrNew("read error")
           body == bsonDecode(getEngine(passedEngine), receiver, delivered,
                              readErr)
           r == Recover("panic during decode", body.res)
       IN bsonIO' = [bsonIO EXCEPT
                        !.pc = "decoded", !.receiver = receiver,
                        !.source = source, !.items = body.items,
                        !.chunks = body.chunks,
                        !.scanErr = body.scanErr, !.escaped = r.escaped,
                        !.readErr = readErr,
                        !.err = IF r.err # NilErr THEN Errorf("decode err", r.err)
                                ELSE NilErr]
    /\ UNCHANGED <<engineVars, histVars, calls, registryVars, jsonIO, mimeQ, hdrQ, errQ, pageQ>>

\* the caller drops the buffer and the receiver
BsonRelease ==
    /\ bsonIO.pc \in {"encoded", "decoded"}
    /\ bsonIO' = IdleBson
    /\ UNCHANGED <<engineVars, histVars, calls, registryVars, jsonIO, mimeQ, hdrQ, errQ, pageQ>>

(* ------------------------------------------------------------------ *)
(* Codec registration and Decode(JSON)                                 *)
(* ------------------------------------------------------------------ *)

\* SpanEngine.AddBSONCodecs
AddBSONCodecs(codecs) ==
    /\ regs < MaxRegs
    /\ jsonIO.pc = "idle"
    /\ LET added == BSONCodecsAdded(bsonCodecs, jsonHandle, codecs)
       IN /\ bsonCodecs' = added.bsonCodecs
          /\ bsonRegistry' = added.bsonRegistry
          /\ jsonHandle' = added.jsonHandle
    /\ regs' = regs + 1
    /\ UNCHANGED <<engineVars, lastEnc, lastDec, calls, bsonIO, jsonIO, mimeQ,
                   hdrQ, errQ, pageQ>>

\* SpanEngine.AddJSONExtensions
AddJSONExtensions(extensions) ==
    /\ regs < MaxRegs
    /\ jsonIO.pc = "idle"
    /\ jsonHandle' = ExtensionsAdded(jsonHandle, extensions)
    /\ regs' = regs + 1
    /\ UNCHANGED <<engineVars, lastEnc, lastDec, calls, bsonIO, bsonCodecs,
                   bsonRegistry, jsonIO, mimeQ, hdrQ, errQ, pageQ>>

\* SpanEngine.Decode(mimetype.JSON, receiver, reader): the receiver is a
\* pointer to a struct with one field of type fieldType, the payload holds
\* value for that field
JsonDecodeCall(fieldType, value) ==
    /\ jsonIO.pc = "idle"
    /\ decoders[JSON] = "json"
    /\ LET body == jsonDecode(getEngine(passedEngine), jsonHandle, fieldType, value)
           r == Recover("panic during decode", body)
       IN jsonIO' = [pc |-> "decoded", fieldType |-> fieldType, value |-> value,
                     escaped |-> r.escaped,
                     err |-> IF r.err # NilErr THEN Errorf("decode err", r.err)
                             ELSE NilErr]
    /\ UNCHANGED <<engineVars, histVars, calls, bsonIO, registryVars, mimeQ, hdrQ, errQ, pageQ>>

\* the caller has looked at the result
JsonRelease ==
    /\ jsonIO.pc = "decoded"
    /\ jsonIO' = IdleJson
    /\ UNCHANGED <<engineVars, histVars, calls, bsonIO, registryVars, mimeQ, hdrQ, errQ, pageQ>>

(* ------------------------------------------------------------------ *)
(* Content types and error headers                                     *)
(* ------------------------------------------------------------------ *)
\* strings.ToUpper, used to write the inputs in upper case
ToUpper(str) ==
    [i \in 1..Len(str) |->
        IF \E k \in 1..Len(LowerCase) : LowerCase[k] = str[i]
        THEN UpperCase[CHOOSE k \in 1..Len(LowerCase) : LowerCase[k] = str[i]]
        ELSE str[i]]

\* a string in lower case, in upper case, or with a capital first letter
Cased(str, mode) ==
    CASE mode = "upper" -> ToUpper(str)
      [] mode = "title" ->
            IF str = << >> THEN str
            ELSE ToUpper(SubSeq(str, 1, 1)) \o SubSeq(str, 2, Len(str))
      [] OTHER -> str

TypePrefixes ==
    {<< >>, <<"a", "p", "p", "l", "i", "c", "a", "t", "i", "o", "n", "/">>,
     <<"a", "p", "p", "l", "i", "c", "a", "t", "i", "o", "n", "/", "x", "-">>,
     <<"x", "-">>, <<"t", "e", "x", "t", "/">>}

SubTypes ==
    {<< >>, <<"j", "s", "o", "n">>, <<"b", "s", "o", "n">>, <<"y", "a", "m", "l">>,
     <<"p", "l", "a", "i", "n">>, <<"t", "e", "x", "t">>, <<"c", "s", "v">>,
     <<"j", "s", "o", "n", "l">>, <<"y", "m", "l">>}

\* Content-Type values handed to FromString
ContentTypes ==
    {Cased(prefix \o subType, mode) :
        prefix \in TypePrefixes, subType \in SubTypes,
        mode \in {"lower", "upper", "title"}}

\* mimetype.FromString(incoming)
FromStringCall(incoming) ==
    /\ mimeQ.pc = "idle"
    /\ mimeQ' = [pc |-> "done", incoming |-> incoming, result |-> FromString(incoming)]
    /\ UNCHANGED <<engineVars, histVars, calls, bsonIO, registryVars, jsonIO, hdrQ, errQ, pageQ>>

\* the caller has looked at the mimetype
MimeRelease ==
    /\ mimeQ.pc = "done"
    /\ mimeQ' = IdleMime
    /\ UNCHANGED <<engineVars, histVars, calls, bsonIO, registryVars, jsonIO, hdrQ, errQ, pageQ>>

\* spanerrors.ErrorFromHeaders(headers, engine, index): the index is
\* ErrorTypeCodeIndex or nil
ErrorFromHeadersCall(headers, indexed) ==
    /\ hdrQ.pc = "idle"
    /\ LET decoded == DecodeAlone(decoders, decoderList, sniffMimeType,
                                  passedEngine, JSON, "struct",
                                  DataPayload(headers.data))
           r == ErrorFromHeaders(headers, decoded.err,
                                 IF indexed THEN ErrorTypeCodeIndex ELSE NilIndex)
       IN hdrQ' = [pc |-> "done", headers |-> headers, indexed |-> indexed,
                   spanError |-> r.spanError, hasError |-> r.hasError,
                   err |-> r.err]
    /\ UNCHANGED <<engineVars, histVars, calls, bsonIO, registryVars, jsonIO, mimeQ,
                   errQ, pageQ>>

\* the caller has looked at the error
HeadersRelease ==
    /\ hdrQ.pc = "done"
    /\ hdrQ' = IdleHeaders
    /\ UNCHANGED <<engineVars, histVars, calls, bsonIO, registryVars, jsonIO, mimeQ,
                   errQ, pageQ>>

\* spanError.ToHeader(header, engine) on the headers of a fresh response
ToHeaderCall(spanError) ==
    /\ errQ.pc = "idle"
    /\ LET picked == EncodeAlone(encoders, passedEngine, JSON, "struct")
           r == ToHeader(NewHeader, spanError,
                         EncodeBag(picked.err, spanError.data))
       IN errQ' = [errQ EXCEPT !.pc = "written", !.e = spanError,
                               !.header = r.header, !.err = r.err]
    /\ UNCHANGED <<engineVars, histVars, calls, bsonIO, registryVars, jsonIO, mimeQ,
                   hdrQ, pageQ>>

\* the client's ErrorFromHeaders on the headers ToHeader wrote
ErrorFromWritten(indexed) ==
    /\ errQ.pc = "written"
    /\ LET headers == [code |-> Get(errQ.header, "error-code"),
                       message |-> Get(errQ.header, "error-message"),
                       id |-> Get(errQ.header, "error-id"),
                       data |-> Get(errQ.header, "error-data")]
           decoded == DecodeAlone(decoders, decoderList, sniffMimeType,
                                  passedEngine, JSON, "struct",
                                  DataPayload(headers.data))
           r == ErrorFromHeaders(headers, decoded.err,
                                 IF indexed THEN ErrorTypeCodeIndex ELSE NilIndex)
       IN errQ' = [errQ EXCEPT !.pc = "read", !.indexed = indexed,
                               !.loaded = r.spanError, !.hasError = r.hasError,
                               !.loadErr = r.err]
    /\ UNCHANGED <<engineVars, histVars, calls, bsonIO, registryVars, jsonIO, mimeQ,
                   hdrQ, pageQ>>

\* the response is done with
ErrorRelease ==
    /\ errQ.pc \in {"written", "read"}
    /\ errQ' = IdleError
    /\ UNCHANGED <<engineVars, histVars, calls, bsonIO, registryVars, jsonIO, mimeQ,
                   hdrQ, pageQ>>

\* values of the counters of a PagingResp: the absent sentinel, zero and
\* counts
PageCounts == {-1, 0, 4, 200}

\* pagingResp.ToHeaders(header) on the headers of a fresh response
ToHeadersCall(pagingResp) ==
    /\ pageQ.pc = "idle"
    /\ pageQ' = [pageQ EXCEPT !.pc = "written", !.pagingResp = pagingResp,
                              !.headers = ToHeaders(NewHeader, pagingResp)]
    /\ UNCHANGED <<engineVars, histVars, calls, bsonIO, registryVars, jsonIO, mimeQ,
                   hdrQ, errQ>>

\* the client's PagingRespFromHeaders on the headers ToHeaders wrote
PagingRespFromHeadersCall ==
    /\ pageQ.pc = "written"
    /\ LET r == PagingRespFromHeaders(pageQ.headers, 50)
       IN pageQ' = [pageQ EXCEPT !.pc = "read", !.loaded = r.pagingResp,
                                 !.err = r.err]
    /\ UNCHANGED <<engineVars, histVars, calls, bsonIO, registryVars, jsonIO, mimeQ,
                   hdrQ, errQ>>

\* the response is done with
PagingRelease ==
    /\ pageQ.pc \in {"written", "read"}
    /\ pageQ' = IdlePaging
    /\ UNCHANGED <<engineVars, histVars, calls, bsonIO, registryVars, jsonIO, mimeQ,
                   hdrQ, errQ>>

(* ------------------------------------------------------------------ *)
(* Specification                                                       *)
(* ------------------------------------------------------------------ *)
Register ==
    \* the registrations a host application makes: <<format, codec>>
    \/ \E r \in {<<TEXT, "custom">>, <<CSV, "panicky">>, <<CSV, "nilpanic">>} :
            SetEncoder(r[1], r[2])
    \/ \E r \in {<<TEXT, "panicky">>, <<CSV, "panicky">>, <<CSV, "nilpanic">>} :
            SetDecoder(r[1], r[2])
    \/ SetPassedEngine(CustomEngine)

Serve(p) ==
    \/ SniffType(p)
    \/ \E f \in MimeType : HandlesEncode(p, f)
    \/ \E f \in MimeType : HandlesDecode(p, f)
    \/ \E f \in MimeType : Handles(p, f)
    \/ \E f \in MimeType, v \in ContentKinds : EncodeCall(p, f, v)
    \/ EncodeInvoke(p)
    \/ \E f \in MimeType, v \in ContentKinds, cl \in BOOLEAN : DecodeCall(p, f, v, cl)
    \/ \E read \in {"json", "bson", "bad", "readfail"} : DecodeInvoke(p, read)
    \/ \E read \in {"json", "bson", "bad", "readfail"} : SniffRead(p, read)
    \/ SniffAttempt(p)
    \/ DecodeReturn(p)
    \/ Release(p)

Next == Register \/ Serve(1)

Spec == Init /\ [][Next]_vars

(* Two goroutines share one engine that is set up before it serves calls.  *)

RegisterConc ==
    /\ decoders[CSV] = NoCodec
    /\ SetDecoder(CSV, "panicky")

ServeConc(p) ==
    \/ SniffType(p)
    \/ HandlesEncode(p, CSV)
    \/ HandlesDecode(p, CSV)
    \/ Handles(p, CSV)
    \/ \E f \in {UNKNOWN, CSV}, v \in {"strptr", "struct"} : EncodeCall(p, f, v)
    \/ EncodeInvoke(p)
    \/ \E f \in {UNKNOWN, CSV}, v \in {"strptr", "struct"} : DecodeCall(p, f, v, TRUE)
    \/ \E read \in {"json", "bad"} : DecodeInvoke(p, read)
    \/ \E read \in {"json", "bad"} : SniffRead(p, read)
    \/ SniffAttempt(p)
    \/ DecodeReturn(p)
    \/ Release(p)

NextConc == RegisterConc \/ \E p \in Callers : ServeConc(p)

SpecConc == Init /\ [][NextConc]_vars

(* One caller encodes to a buffer with the BSON codec and decodes it back.  *)
NextBson ==
    \* contents: a document by value or by pointer, a slice of at most MaxDocs
    \* documents or pointers to documents, a slice of strings, and a raw
    \* document by value or by pointer; the Write of the sink that fails: none,
    \* or the second
    \/ \E content \in
            {[type |-> "Name", ptr |-> b, items |-> <<v>>] :
                b \in BOOLEAN, v \in FieldValues}
            \cup {[type |-> t, ptr |-> b, items |-> d] :
                t \in {"[]Name", "[]*Name"}, b \in BOOLEAN,
                d \in UNION {[1..k -> FieldValues] : k \in 0..MaxDocs}}
            \cup {[type |-> "[]string", ptr |-> FALSE, items |-> <<<<97>>>>]}
            \cup {[type |-> "bson.Raw", ptr |-> b, items |-> <<Marshal(v)>>] :
                b \in BOOLEAN, v \in FieldValues},
          failAt \in {0, 2} :
            BsonEncodeCall(content, failAt)
    \* receivers: a pointer to a document, and a slice by pointer or by value,
    \* empty or already holding an element; reading the source ends with
    \* io.EOF, with an error at its end, or with an error half way
    \/ \E receiver \in
            {[type |-> "Name", ptr |-> TRUE, items |-> << >>]}
            \cup {[type |-> t, ptr |-> b, items |-> d] :
                t \in {"[]Name", "[]*Name"}, b \in BOOLEAN,
                d \in {<< >>, <<<<98>>>>}},
          failure \in {"none", "end", "mid"} :
            BsonDecodeCall(receiver, failure)
    \/ BsonRelease

SpecBson == Init /\ [][NextBson]_vars

(* Codecs and extensions are added to an engine that decodes JSON.         *)
NextCodecs ==
    \/ \E codecs \in
            {<< >>, <<Opts("Name", "codecA")>>, <<Opts("Name", "codecB")>>,
             <<Opts("Money", "codecA")>>, <<Opts("uuid.UUID", "codecB")>>,
             <<Opts("Name", "codecA"), Opts("Money", "codecB")>>} :
            AddBSONCodecs(codecs)
    \/ \E extensions \in {<< >>, <<ExtOpts("badType", "jsonExtBadType")>>} :
            AddJSONExtensions(extensions)
    \* the type of the field a JSON payload is decoded into, and what the
    \* payload holds for it
    \/ \E fieldType \in {"string", "bson.Raw", "*bson.Raw", "primitive.Binary",
                          "*primitive.Binary", "badType"},
          value \in {"absent", "string", "object"} :
            JsonDecodeCall(fieldType, value)
    \/ JsonRelease

SpecCodecs == Init /\ [][NextCodecs]_vars

(* A client reads the content type of a response.                          *)
NextMime ==
    \/ \E incoming \in ContentTypes : FromStringCall(incoming)
    \/ MimeRelease

SpecMime == Init /\ [][NextMime]_vars

(* A client reads the error headers of a response.                         *)
NextHeaders ==
    \/ \E headers \in
            [code : {<< >>, <<"1", "0", "0", "5">>, <<"9", "9", "9", "9">>,
                     <<"-", "1">>, <<"1", "O", "0", "5">>},
             message : {"", "test message"},
             id : {"", "not a uuid"} \cup UuidStrings,
             data : {"", "{\"key\":\"value\"}", "not valid json object"}],
          indexed \in BOOLEAN :
            ErrorFromHeadersCall(headers, indexed)
    \/ HeadersRelease

SpecHeaders == Init /\ [][NextHeaders]_vars

(* A handler writes an error to the response headers; the client reads it. *)
NextErrors ==
    \* error types: two of errorList.go, one whose code the index lacks and
    \* one that shares an indexed code under another name; data bags: nil,
    \* empty, with an entry, and holding a value the JSON encoder fails on
    \/ \E spanError \in
            [type : {[name |-> "ResponseValidationError", apiCode |-> 1005],
                     [name |-> "APIError", apiCode |-> 1000],
                     [name |-> "TeapotError", apiCode |-> 2418],
                     [name |-> "HostValidationError", apiCode |-> 1005]},
             message : {"", "test message"},
             id : {"nil-uuid", "dns-uuid"},
             data : {NilBag, EmptyBag, MakeBag({<<"key", "value">>}),
                     MakeBag({<<"key", "value">>, <<"key2", "unencodable">>}),
                     MakeBag({<<"key2", "unencodable">>})}] :
            ToHeaderCall(spanError)
    \/ \E indexed \in BOOLEAN : ErrorFromWritten(indexed)
    \/ ErrorRelease

SpecErrors == Init /\ [][NextErrors]_vars

(* A handler writes paging information to the response headers; the client *)
(* reads it.                                                               *)
NextPaging ==
    \/ \E pagingResp \in
            [Offset : {0, 10}, Limit : {0, 50}, TotalItems : PageCounts,
             TotalPages : PageCounts, CurrentPage : PageCounts,
             Next : {"", "www.api/some/page3"},
             Previous : {"", "www.api/some/page1"}, isNil : {FALSE}] :
            ToHeadersCall(pagingResp)
    \/ PagingRespFromHeadersCall
    \/ PagingRelease

SpecPaging == Init /\ [][NextPaging]_vars

(* ------------------------------------------------------------------ *)
(* Properties                                                          *)
(* ------------------------------------------------------------------ *)
StringKinds == {"string", "strptr"}

Returning(c) == c.pc \in {"ret", "done"}
Sniffing(c) == c.op = "Decode" /\ c.resolved = UNKNOWN

\* e occurs in err as a run of consecutive message parts
Occurs(e, err) ==
    /\ e # << >>
    /\ \E k \in 1..(Len(err) - Len(e) + 1) : SubSeq(err, k, k + Len(e) - 1) = e

\* a codec body failed: it panicked or returned an error
BodyFailed(body) == body.kind = "panic" \/ body.err # NilErr
\* what the failure was
Reason(body) == IF body.kind = "panic" THEN body.val ELSE body.err

\* C1: a panic of a codec never leaves Encode or Decode; the call returns a
\* non-nil error carrying the panic's message, and a sniffing attempt that
\* panics counts as failed so that the next decoder of the list is tried.
C1_FaultContained ==
    \A p \in Callers :
        LET c == calls[p]
        IN /\ ~c.escaped
           /\ \A i \in DOMAIN c.attempts :
                (c.attempts[i].body.kind = "panic" /\ (c.op = "Encode" \/ Returning(c)))
                => IF Sniffing(c) /\ i < Len(c.list)
                   THEN i < Len(c.attempts)
                   ELSE /\ c.err # NilErr
                        /\ Occurs(c.attempts[i].body.val, c.err)

\* C2: a Decode call on a source that supports Close closes it exactly once,
\* and has done so when Decode has returned, whatever the outcome.
C2_SourceClosedOnce ==
    \A p \in Callers :
        LET c == calls[p]
        IN (c.op = "Decode" /\ c.closer)
           => /\ c.closed <= 1
              /\ c.pc = "done" => c.closed = 1

C2_Witness ==
    \E p \in Callers :
        LET c == calls[p]
        IN /\ c.op = "Decode" /\ c.closer /\ c.pc = "done" /\ c.closed = 1
           /\ Sniffing(c) /\ Len(c.attempts) >= 3 /\ c.err # NilErr

\* C3: sniffing tries the decoders of the cached list one at a time in list
\* order; the first attempt that returns without error or panic ends the
\* loop: no further decoder is invoked, Decode returns nil and the earlier
\* failures are not in the result.
C3_FirstSuccessWins ==
    \A p \in Callers :
        LET c == calls[p]
        IN (Sniffing(c) /\ c.pc \in {"attempt", "ret", "done"})
           => /\ Len(c.invoked) <= Len(c.list)
              /\ \A i \in DOMAIN c.invoked : c.invoked[i] = c.list[i]
              /\ c.pc = "attempt" => c.idx = Len(c.invoked) + 1
              /\ \A i \in DOMAIN c.attempts :
                    ~BodyFailed(c.attempts[i].body)
                    => /\ i = Len(c.attempts)
                       /\ Returning(c)
                       /\ c.err = NilErr

C3_Witness ==
    \E p \in Callers :
        LET c == calls[p]
        IN /\ Sniffing(c) /\ c.pc = "done" /\ c.err = NilErr
           /\ Len(c.attempts) = 2 /\ Len(c.list) > 2
           /\ BodyFailed(c.attempts[1].body)
           /\ ~BodyFailed(c.attempts[2].body)

\* the reasons rs occur in err one after the other, from position k on
RECURSIVE OccurInOrder(_, _, _)
OccurInOrder(err, k, rs) ==
    IF rs = << >> THEN TRUE
    ELSE LET r == Head(rs)
             at == {q \in k..(Len(err) - Len(r) + 1) :
                        SubSeq(err, q, q + Len(r) - 1) = r}
         IN /\ r # << >>
            /\ at # {}
            /\ OccurInOrder(err, (CHOOSE q \in at : \A q2 \in at : q <= q2) + Len(r),
                            Tail(rs))

Reverse(sq) == [i \in 1..Len(sq) |-> sq[Len(sq) + 1 - i]]

\* C4: when every decoder of the cached list fails during sniffing, Decode
\* returns a non-nil error holding the failure of every attempt: the last
\* attempt's outermost, the earlier ones nested behind it, none dropped.
C4_ExhaustionChained ==
    \A p \in Callers :
        LET c == calls[p]
            passEngine == getEngine(passedEngine)
        IN (/\ Sniffing(c) /\ Returning(c) /\ c.list # << >>
            /\ \A i \in DOMAIN c.list :
                  BodyFailed(DecoderBody(c.list[i], passEngine, c.content, c.buffer)))
           => /\ c.err # NilErr
              /\ Len(c.attempts) = Len(c.list)
              /\ OccurInOrder(c.err, 1,
                    Reverse([i \in DOMAIN c.attempts |-> Reason(c.attempts[i].body)]))

\* C5: Decode with format Unknown and a receiver that is not string-typed, on
\* an engine that does not sniff, fails with "mimetype is unknown and sniffing
\* is disabled" without invoking a decoder or reading the source.
C5_SniffingDisabled ==
    \A p \in Callers :
        LET c == calls[p]
        IN (/\ c.op = "Decode" /\ c.mimeType = UNKNOWN
            /\ c.content \notin StringKinds /\ ~sniffMimeType)
           => /\ Returning(c)
              /\ c.err = <<"mimetype is unknown and sniffing is disabled">>
              /\ c.invoked = << >>
              /\ c.reads = 0

C5_Witness ==
    \E p \in Callers :
        LET c == calls[p]
        IN /\ c.op = "Decode" /\ c.mimeType = UNKNOWN /\ c.content = "struct"
           /\ ~sniffMimeType /\ c.pc = "done"
           /\ c.err = <<"mimetype is unknown and sniffing is disabled">>

\* C6: Decode with format Unknown resolves to Text when the receiver is a
\* string or a pointer to a string, and then invokes the decoder registered
\* for Text whatever the sniff flag is; for any other receiver the format
\* stays Unknown and the call takes the sniffing path.  Unknown is never
\* resolved to JSON.
C6_DecodeInference ==
    \A p \in Callers :
        LET c == calls[p]
        IN (c.op = "Decode" /\ c.mimeType = UNKNOWN)
           => /\ c.resolved # JSON
              /\ IF c.content \in StringKinds
                 THEN /\ c.resolved = TEXT
                      /\ c.codec = decoders[TEXT]
                      /\ c.pc = "decode" \/ (Returning(c) /\ c.invoked = <<decoders[TEXT]>>)
                 ELSE /\ c.resolved = UNKNOWN
                      /\ c.codec = NoCodec
                      /\ c.pc \in {"sniff", "attempt", "ret", "done"}
                      /\ ~sniffMimeType => c.invoked = << >>
                      /\ \A i \in DOMAIN c.invoked : c.invoked[i] = c.list[i]

C6_Witness ==
    \E p \in Callers :
        LET c == calls[p]
        IN /\ c.op = "Decode" /\ c.mimeType = UNKNOWN /\ c.content = "strptr"
           /\ ~sniffMimeType /\ c.pc = "done" /\ c.resolved = TEXT
           /\ c.invoked = <<"text">> /\ c.err = NilErr

\* C7: Encode with format Unknown invokes the same encoder on the same input,
\* writes the same bytes and returns the same result as Encode with Text when
\* the value is a string or a pointer to a string, and as Encode with JSON for
\* every other value.
C7_EncodeInference ==
    \A p \in Callers :
        LET c == calls[p]
            f == IF c.content \in StringKinds THEN TEXT ELSE JSON
            explicit == EncodeAlone(encoders, passedEngine, f, c.content)
        IN (c.op = "Encode" /\ c.mimeType = UNKNOWN /\ c.pc = "done")
           => /\ c.resolved = f
              /\ c.invoked = explicit.invoked
              /\ c.written = explicit.written
              /\ c.err = explicit.err

C7_Witness ==
    \E p \in Callers :
        LET c == calls[p]
        IN /\ c.op = "Encode" /\ c.mimeType = UNKNOWN /\ c.pc = "done"
           /\ c.content = "strptr" /\ c.written = Bytes("text", "strptr")

\* C8: for a format other than Unknown without registered encoder, Encode
\* returns "no encoder for <format>", invokes no encoder and writes nothing;
\* without registered decoder, Decode returns "no decoder for <format>",
\* invokes no decoder and does not sniff even when sniffing is enabled.
C8_Unregistered ==
    \A p \in Callers :
        LET c == calls[p]
        IN /\ (c.op = "Encode" /\ c.mimeType # UNKNOWN
               /\ encoders[c.mimeType] = NoCodec)
              => /\ c.pc = "done"
                 /\ c.err = <<"no encoder for", c.mimeType>>
                 /\ c.invoked = << >>
                 /\ c.written = NoBytes
           /\ (c.op = "Decode" /\ c.mimeType # UNKNOWN
               /\ decoders[c.mimeType] = NoCodec)
              => /\ Returning(c)
                 /\ c.err = <<"no decoder for", c.mimeType>>
                 /\ c.invoked = << >>
                 /\ c.reads = 0

C8_Witness ==
    \E p \in Callers :
        LET c == calls[p]
        IN /\ c.op = "Decode" /\ c.mimeType = CSV /\ sniffMimeType
           /\ c.pc = "done" /\ c.err = <<"no decoder for", CSV>>
           /\ encoders[CSV] # NoCodec

\* C9: registration is last-write-wins per format and direction: the maps
\* hold, for every format, the codec of the latest SetEncoder / SetDecoder
\* for it (a registration touches no other format or direction), and a call
\* invokes only codecs that are currently registered: Encode and Decode with
\* a registered format exactly the one registered for it.
C9_LastWriteWins ==
    /\ encoders = lastEnc
    /\ decoders = lastDec
    /\ \A p \in Callers :
        LET c == calls[p]
        IN /\ (c.op = "Encode" /\ c.pc = "done" /\ lastEnc[c.resolved] # NoCodec)
              => c.invoked = <<lastEnc[c.resolved]>>
           /\ (c.op = "Decode" /\ Returning(c) /\ c.resolved # UNKNOWN
               /\ lastDec[c.resolved] # NoCodec)
              => c.invoked = <<lastDec[c.resolved]>>
           /\ c.op = "Decode"
              => \A i \in DOMAIN c.invoked :
                    \E f \in MimeType : c.invoked[i] = lastDec[f]

C9_Witness ==
    /\ lastEnc[TEXT] = "custom"
    /\ \E p \in Callers :
        LET c == calls[p]
        IN /\ c.op = "Encode" /\ c.pc = "done" /\ c.resolved = TEXT
           /\ c.invoked = <<"custom">>
           /\ c.written = Bytes("custom", "string")

\* the result a finished call would have had running alone on the engine
SameAsAlone(c) ==
    CASE c.op = "Encode" ->
            LET a == EncodeAlone(encoders, passedEngine, c.mimeType, c.content)
            IN c.err = a.err /\ c.written = a.written /\ c.invoked = a.invoked
      [] c.op = "Decode" ->
            LET a == DecodeAlone(decoders, decoderList, sniffMimeType, passedEngine,
                                 c.mimeType, c.content, c.buffer)
            IN c.err = a.err /\ c.invoked = a.invoked
      [] c.op = "SniffType" -> c.answer = sniffMimeType
      [] c.op = "HandlesEncode" -> c.answer = (encoders[c.mimeType] # NoCodec)
      [] c.op = "HandlesDecode" -> c.answer = (decoders[c.mimeType] # NoCodec)
      [] c.op = "Handles" ->
            c.answer = (encoders[c.mimeType] # NoCodec /\ decoders[c.mimeType] # NoCodec)
      [] OTHER -> TRUE

\* C10: Encode, Decode, HandlesEncode, HandlesDecode, Handles and SniffType
\* leave the encoder map, the decoder map, the cached decoder list, the sniff
\* flag and the passed engine unchanged; so every call interleaved with other
\* calls on the shared engine returns what it would return running alone.
C10_CallsReadOnly ==
    /\ [][calls' # calls => engineVars' = engineVars]_vars
    /\ [](\A p \in Callers : calls[p].pc = "done" => SameAsAlone(calls[p]))

C10_Witness ==
    /\ calls[1].pc = "done" /\ Sniffing(calls[1]) /\ Len(calls[1].attempts) >= 2
    /\ calls[2].pc = "attempt" /\ calls[2].idx >= 2

(* ------------------------------------------------------------------ *)
(* BSON framing                                                        *)
(* ------------------------------------------------------------------ *)
SliceTypes == {"[]Name", "[]*Name"}

\* the encoded documents of a slice, in index order
EncodedDocs(content) == [i \in 1..Len(content.items) |-> Marshal(content.items[i])]

\* the writes that put n documents on the wire with the delimiter between them
RECURSIVE Framed(_)
Framed(docs) ==
    IF Len(docs) <= 1 THEN docs
    ELSE <<Head(docs), BsonListSepBytes>> \o Framed(Tail(docs))

\* Encode(BSON) of a slice of documents returned nil
EncodedSlice ==
    /\ bsonIO.pc \in {"encoded", "decoded"}
    /\ bsonIO.content.type \in SliceTypes
    /\ Len(bsonIO.content.items) >= 1
    /\ bsonIO.encErr = NilErr

\* C11: a successful Encode(BSON) of a slice of n >= 1 elements writes the n
\* element documents in index order with the delimiter exactly between
\* consecutive documents: 2n-1 writes, n-1 of them the delimiter, none first
\* and none last.
C11_DelimiterBetween ==
    EncodedSlice =>
        LET n == Len(bsonIO.content.items)
            writes == bsonIO.sink.writes
        IN /\ writes = Framed(EncodedDocs(bsonIO.content))
           /\ Len(writes) = 2 * n - 1
           /\ Cardinality({k \in 1..Len(writes) : writes[k] = BsonListSepBytes}) = n - 1
           /\ writes[1] # BsonListSepBytes
           /\ writes[Len(writes)] # BsonListSepBytes

C11_Witness ==
    /\ EncodedSlice
    /\ bsonIO.pc = "encoded"
    /\ Len(bsonIO.content.items) = 2
    /\ bsonIO.sink.writes[2] = BsonListSepBytes

\* the buffer of an encoded slice was read to its end and decoded into a
\* slice behind a pointer
DecodedSlice ==
    /\ EncodedSlice
    /\ bsonIO.pc = "decoded"
    /\ bsonIO.readErr = NilErr
    /\ bsonIO.receiver.type \in SliceTypes
    /\ bsonIO.receiver.ptr

\* no encoded document of the slice contains the delimiter sequence
DelimiterFree(content) ==
    \A i \in 1..Len(content.items) :
        bytesIndex(Marshal(content.items[i]), BsonListSepBytes) = -1

\* C12: a slice of n documents, of values or of pointers, whose encoded
\* documents do not contain the delimiter decodes from the encoder's output
\* into an empty slice behind a pointer without error, as exactly the n
\* original elements in the original order.
C12_SequenceRoundTrip ==
    (DecodedSlice /\ bsonIO.receiver.items = << >>
        /\ DelimiterFree(bsonIO.content)) =>
        /\ bsonIO.err = NilErr
        /\ Len(bsonIO.items) = Len(bsonIO.content.items)
        /\ bsonIO.items = bsonIO.content.items

\* C13: the scanner delivers exactly the documents the encoder wrote: every
\* chunk is one whole written document at its index, and a decode that ends
\* without any error has seen all of them.
C13_NoDocumentCut ==
    DecodedSlice =>
        LET docs == EncodedDocs(bsonIO.content)
        IN /\ \A i \in 1..Len(bsonIO.chunks) :
                i <= Len(docs) /\ bsonIO.chunks[i] = docs[i]
           /\ (bsonIO.err = NilErr /\ bsonIO.scanErr = NilErr)
                => Len(bsonIO.chunks) = Len(docs)

\* C14: Decode(BSON) into a slice passed by value returns the error
\* "slice receiver must be pointer" wrapped as a decode error, without a
\* panic, without reading a document and without touching the slice.
C14_SliceMustBePointer ==
    (bsonIO.pc = "decoded" /\ bsonIO.receiver.type \in SliceTypes
        /\ ~bsonIO.receiver.ptr) =>
        /\ bsonIO.err = <<"decode err", "slice receiver must be pointer">>
        /\ ~bsonIO.escaped
        /\ bsonIO.chunks = << >>
        /\ bsonIO.items = bsonIO.receiver.items

C14_Witness ==
    /\ bsonIO.pc = "decoded"
    /\ bsonIO.receiver.type = "[]*Name"
    /\ ~bsonIO.receiver.ptr
    /\ bsonIO.receiver.items # << >>
    /\ bsonIO.content.type = "[]*Name"
    /\ bsonIO.encErr = NilErr
    /\ bsonIO.source # << >>

\* C15: a raw document given to Encode(BSON) by pointer or by value is
\* written verbatim with one write: no element is encoded on its own and no
\* delimiter is written.
C15_RawVerbatim ==
    (bsonIO.pc = "encoded" /\ bsonIO.content.type = "bson.Raw"
        /\ bsonIO.sink.failAt = 0) =>
        /\ bsonIO.err = NilErr
        /\ bsonIO.sink.writes = bsonIO.content.items

(* ------------------------------------------------------------------ *)
(* Registry, passed engine, JSON extensions                            *)
(* ------------------------------------------------------------------ *)
\* the codec of the latest registration of value type t, NoCodec if none
RECURSIVE LatestCodec(_, _)
LatestCodec(codecs, t) ==
    IF codecs = << >> THEN NoCodec
    ELSE IF codecs[Len(codecs)].type = t THEN codecs[Len(codecs)].codec
    ELSE LatestCodec(SubSeq(codecs, 1, Len(codecs) - 1), t)

\* C16: the registry in use holds a codec for every value type registered by
\* any AddBSONCodecs call so far, the built-in ones of NewContentEngine
\* included: the codec of the latest registration of that type.
C16_RegistryKeepsCodecs ==
    \A t \in ValueTypes :
        LatestCodec(bsonCodecs, t) # NoCodec =>
            bsonRegistry[t] = LatestCodec(bsonCodecs, t)

\* C17: with a host engine passed to the codecs, a call served by a built-in
\* codec ends as the same call does on the base engine.
C17_PassedEngineWorks ==
    \A p \in Callers :
        LET c == calls[p]
        IN (c.pc = "done" /\ passedEngine = CustomEngine
                /\ c.codec \in {"json", "bson", "text"}) =>
            /\ c.op = "Encode" =>
                c.err = EncodeAlone(encoders, "nil", c.mimeType, c.content).err
            /\ c.op = "Decode" =>
                c.err = DecodeAlone(decoders, decoderList, sniffMimeType, "nil",
                                    c.mimeType, c.content, c.buffer).err

\* the message of the built-in extension of an encode-only type
NotSupported(baseType) ==
    IF baseType = "bson.Raw"
    THEN "Decoding to BSON raw field not supported"
    ELSE "decoding to bson binary field not supported -- use uuid or BinData type as intermediary"

Expected(l) ==
    IF l = << >> THEN Chars(UNKNOWN)
    ELSE IF l \in {<<"t", "e", "x", "t", "/", "p", "l", "a", "i", "n">>,
                   <<"t", "e", "x", "t">>}
    THEN Chars(TEXT)
    ELSE IF HasSuffix(l, <<"j", "s", "o", "n">>) THEN Chars(JSON)
    ELSE IF HasSuffix(l, <<"b", "s", "o", "n">>) THEN Chars(BSON)
    ELSE IF HasSuffix(l, <<"y", "a", "m", "l">>) THEN Chars(YAML)
    ELSE l

\* C19: FromString answers every input, by the lower-case form l of the
\* input alone: Unknown for the empty string, Text for "text/plain" and
\* "text", else the first of JSON, BSON, YAML whose subtype ends l, else the
\* custom mimetype l; so the input and l get the same answer.
C19_FromStringCases ==
    mimeQ.pc = "done" =>
        /\ mimeQ.result = Expected(ToLower(mimeQ.incoming))
        /\ mimeQ.result = FromString(ToLower(mimeQ.incoming))

C19_Witness ==
    /\ mimeQ.pc = "done"
    /\ mimeQ.incoming = ToUpper(<<"a", "p", "p", "l", "i", "c", "a", "t", "i", "o", "n", "/", "x", "-", "j", "s", "o", "n">>)
    /\ mimeQ.result = Chars(JSON)

\* C20: hasError is true exactly when the error-code header is not empty; a
\* missing error-code gives (nil, false, "no error in headers").
C20_HasErrorIffCode ==
    hdrQ.pc = "done" =>
        /\ hdrQ.hasError <=> hdrQ.headers.code # << >>
        /\ hdrQ.headers.code = << >> =>
            /\ hdrQ.spanError = NilSpanError
            /\ hdrQ.err = <<"no error in headers">>

\* C21: with an error-code header present, ErrorFromHeaders reports the first
\* of five causes that applies, in the order non-integer code, nil index, code
\* absent from the index, malformed error-id, undecodable error-data; each
\* gives a nil SpanError and its own message, the five messages differing
\* pairwise; with no cause the error is nil.
C21_FirstCauseReported ==
    (hdrQ.pc = "done" /\ hdrQ.headers.code # << >>) =>
        LET h == hdrQ.headers
            code == Atoi(h.code)
            causes == <<code.err # NilErr,
                        ~hdrQ.indexed,
                        code.val \notin DOMAIN ErrorTypeCodeIndex,
                        h.id \notin UuidStrings,
                        h.data # "" /\ DataPayload(h.data) = "bad">>
            messages == <<<<"error-code not int">>,
                          <<"no error index provided">>,
                          <<"no known error for code ", h.code>>,
                          <<"error Id is not valid UUID">>,
                          <<"error data could not be parsed as JSON">>>>
            applies == {i \in 1..5 : causes[i]}
        IN /\ \A i, j \in 1..5 : i # j => messages[i] # messages[j]
           /\ IF applies = {}
              THEN hdrQ.err = NilErr /\ hdrQ.spanError # NilSpanError
              ELSE LET first == CHOOSE i \in applies :
                                    \A j \in applies : i <= j
                   IN /\ hdrQ.err = messages[first]
                      /\ hdrQ.spanError = NilSpanError

\* an unknown code and a malformed id at once: the unknown code is reported
C21_Witness ==
    /\ hdrQ.pc = "done"
    /\ hdrQ.indexed
    /\ hdrQ.headers.code = <<"9", "9", "9", "9">>
    /\ hdrQ.headers.id = "not a uuid"
    /\ hdrQ.headers.data = "not valid json object"
    /\ hdrQ.err = <<"no known error for code ", <<"9", "9", "9", "9">>>>
    /\ hdrQ.spanError = NilSpanError

\* the client read the headers of e with the index of errorList.go, which
\* holds e's API code
ReadIndexed ==
    /\ errQ.pc = "read"
    /\ errQ.indexed
    /\ errQ.e.type.apiCode \in DOMAIN ErrorTypeCodeIndex

\* the loaded error is a new instance with e's message, identifier and data,
\* typed by the index entry of e's code
LoadedAsSent ==
    /\ errQ.hasError
    /\ errQ.loadErr = NilErr
    /\ errQ.loaded # NilSpanError
    /\ errQ.loaded.message = errQ.e.message
    /\ errQ.loaded.id = errQ.e.id
    /\ errQ.loaded.data = errQ.e.data
    /\ errQ.loaded.type = ErrorTypeCodeIndex[errQ.e.type.apiCode]

FourWritten ==
    /\ {"error-name", "error-code", "error-message", "error-id"}
            \subseteq DOMAIN errQ.header
    /\ errQ.header["error-name"] = errQ.e.type.name
    /\ errQ.header["error-code"] = Itoa(errQ.e.type.apiCode)
    /\ errQ.header["error-message"] = errQ.e.message
    /\ errQ.header["error-id"] = UuidString(errQ.e.id)

\* C23: after a ToHeader that returned nil the error-data header is present
\* exactly when the data bag has entries (a nil bag and a map without entries
\* write none), and the other four headers are always present.
C23_DataHeaderIffEntries ==
    (errQ.pc # "idle" /\ errQ.err = NilErr) =>
        /\ FourWritten
        /\ "error-data" \in DOMAIN errQ.header <=> errQ.e.data.entries # {}

\* C29: when encoding the data bag fails, ToHeader returns the encode error
\* with error-name, error-code, error-message and error-id written and
\* error-data not written; a client reading those headers gets an error with
\* an empty data bag.
C29_HeadersBeforeEncode ==
    (errQ.pc # "idle" /\ errQ.err # NilErr) =>
        /\ errQ.err = <<"encode err", "json encode error: Whoops">>
        /\ FourWritten
        /\ "error-data" \notin DOMAIN errQ.header
        /\ ReadIndexed =>
                /\ errQ.hasError
                /\ errQ.loadErr = NilErr
                /\ errQ.loaded.data = EmptyBag

\* a failed ToHeader whose headers a client has read
C29_Witness ==
    /\ ReadIndexed
    /\ errQ.err # NilErr
    /\ errQ.e.data = MakeBag({<<"key", "value">>, <<"key2", "unencodable">>})
    /\ FourWritten
    /\ "error-data" \notin DOMAIN errQ.header
    /\ errQ.loaded.message = errQ.e.message
    /\ errQ.loaded.data = EmptyBag

\* the header of a counter is absent exactly when the counter is -1; any
\* other value is written as its decimal text and read back unchanged
SentinelOnly(key, sent, loaded) ==
    /\ key \notin DOMAIN pageQ.headers <=> sent = -1
    /\ sent # -1 => /\ Get(pageQ.headers, key) = Itoa(sent)
                    /\ loaded = sent

\* C24: ToHeaders omits paging-total-items, paging-total-pages and
\* paging-current-page exactly when the field is -1 and writes every other
\* value as its decimal string, which PagingRespFromHeaders reads back.
C24_OmittedIffSentinel ==
    pageQ.pc = "read" =>
        /\ pageQ.err = NilErr
        /\ SentinelOnly("paging-total-items", pageQ.pagingResp.TotalItems,
                        pageQ.loaded.TotalItems)
        /\ SentinelOnly("paging-total-pages", pageQ.pagingResp.TotalPages,
                        pageQ.loaded.TotalPages)
        /\ SentinelOnly("paging-current-page", pageQ.pagingResp.CurrentPage,
                        pageQ.loaded.CurrentPage)

\* C25: sniffing reads the source once and in full before any decoder runs,
\* and every attempt is handed a reader over the whole buffered payload,
\* whatever the attempts before it consumed.
C25_FreshReaderPerAttempt ==
    \A p \in Callers :
        LET c == calls[p]
        IN /\ c.pc = "sniff" => c.reads = 0 /\ c.attempts = << >>
           /\ (/\ c.pc \in {"attempt", "ret", "done"}
               /\ Sniffing(c)
               /\ c.err # ErrNew("mimetype is unknown and sniffing is disabled")) =>
                /\ c.reads = 1
                /\ Len(c.readers) = Len(c.attempts)
                /\ \A i \in DOMAIN c.readers : c.readers[i] = c.buffer
                /\ c.buffer = "readfail" => c.attempts = << >>

\* a second decoder is tried on the payload the first one failed on
C25_Witness ==
    /\ calls[1].pc = "done"
    /\ Sniffing(calls[1])
    /\ Len(calls[1].attempts) >= 2
    /\ calls[1].attempts[1].body = Returned(ErrNew("bson decode error"))
    /\ calls[1].attempts[2].body = Returned(NilErr)
    /\ calls[1].attempts[2].codec = "json"
    /\ calls[1].readers[2] = "json"
    /\ calls[1].err = NilErr

\* the cached list holds one entry per key of the decoder map, the key's
\* current decoder
ListOfMap == \E order \in KeyOrders(decoders) :
                decoderList = RebuiltList(decoders, order)

\* C26: in every state the cached decoder list has exactly one entry per key
\* of the decoder map, the key's current decoder, and a step that changes the
\* encoder map (SetEncoder) leaves the list as it is.
C26_ListMatchesMap ==
    /\ [](/\ ListOfMap
          /\ Len(decoderList) = Cardinality({f \in MimeType : decoders[f] # NoCodec})
          /\ \A f \in MimeType : lastDec[f] = decoders[f])
    /\ [][encoders' # encoders => decoderList' = decoderList]_vars

\* the text decoder has been replaced and a CSV decoder added
C26_Witness ==
    /\ decoders[TEXT] = "panicky"
    /\ decoders[CSV] = "nilpanic"
    /\ Len(decoderList) = 4
    /\ \A i \in DOMAIN decoderList : decoderList[i] # "text"
    /\ \E i \in DOMAIN decoderList : decoderList[i] = "nilpanic"

\* JSON, BSON and Text each have an encoder and a decoder, and the cached
\* list is not empty
BuiltinsRegistered ==
    /\ \A f \in {JSON, BSON, TEXT} : encoders[f] # NoCodec /\ decoders[f] # NoCodec
    /\ decoderList # << >>

\* sniffContent has been entered by call c and has returned
SniffReturned(c) ==
    /\ c.pc \in {"ret", "done"}
    /\ Sniffing(c)
    /\ c.err # ErrNew("mimetype is unknown and sniffing is disabled")

\* C30 as stated: the built-in formats stay registered, the cached list is
\* never empty and sniffing always attempts a decoder before it returns.
C30_AlwaysAttempts ==
    /\ BuiltinsRegistered
    /\ \A p \in Callers : SniffReturned(calls[p]) => calls[p].attempts # << >>

\* C30: in every reachable state JSON, BSON and Text each have an encoder and
\* a decoder registered and the cached decoder list is not empty; sniffing
\* that has read its source attempts at least one decoder before it returns.
C30_BuiltinsStay ==
    /\ BuiltinsRegistered
    /\ \A p \in Callers :
            (SniffReturned(calls[p]) /\ calls[p].buffer # "readfail")
                => calls[p].attempts # << >>

\* after two registrations a sniffing call has tried the JSON decoder
C30_Witness ==
    /\ regs = MaxRegs
    /\ BuiltinsRegistered
    /\ SniffReturned(calls[1])
    /\ calls[1].buffer = "json"
    /\ calls[1].attempts # << >>
    /\ calls[1].err = NilErr

\* Decode(BSON) into a slice behind a pointer has returned
DecodedMany ==
    /\ bsonIO.pc = "decoded"
    /\ bsonIO.receiver.type \in SliceTypes
    /\ bsonIO.receiver.ptr

\* C27: when reading the source failed or the scanner could not deliver a
\* chunk during a multi-document decode, Decode returned a non-nil error.
C27_ScanFailureReported ==
    (DecodedMany /\ (bsonIO.readErr # NilErr \/ bsonIO.scanErr # NilErr))
        => bsonIO.err # NilErr

\* the values of the chunks 1..k
ChunkValues(k) == [i \in 1..k |-> decodeSingle(bsonIO.chunks[i]).val]

\* the m elements the slice held are kept and the decoded chunks come after
\* them in order: all of them, or those before the chunk that failed
ChunksAppended ==
    LET prior == bsonIO.receiver.items
        k == Len(bsonIO.chunks)
    IN /\ SubSeq(bsonIO.items, 1, Len(prior)) = prior
       /\ bsonIO.err = NilErr => bsonIO.items = prior \o ChunkValues(k)
       /\ bsonIO.err # NilErr =>
            /\ k >= 1
            /\ decodeSingle(bsonIO.chunks[k]).err # NilErr
            /\ bsonIO.items = prior \o ChunkValues(k - 1)

\* C28: a multi-document decode keeps the m elements the slice held and
\* appends after them: all n documents of the payload in order when it
\* returns nil, and the k-1 documents before chunk k when chunk k fails to
\* decode.
C28_AppendsNeverClears ==
    DecodedMany =>
        /\ ChunksAppended
        /\ (/\ bsonIO.err = NilErr
            /\ bsonIO.readErr = NilErr
            /\ EncodedSlice
            /\ DelimiterFree(bsonIO.content))
             => bsonIO.items = bsonIO.receiver.items \o bsonIO.content.items

====
